---- MODULE Spec2Model ----
(***************************************************************************)
(* ADAMCOM: the event loop, the line handler and the repeat scheduler of   *)
(* src/src/main.cpp, with the send helpers of src/src/io.cpp.              *)
(*                                                                         *)
(* A string is a sequence of one-character strings.  A line is the         *)
(* sequence of its whitespace-separated tokens (what `iss >> token`        *)
(* yields); Join renders it with single spaces where the code needs the    *)
(* characters.  Time is in milliseconds of the steady clock.               *)
(***************************************************************************)
EXTENDS Integers, Sequences, FiniteSets, TLC

\* ------------------------------------------------------------------------
\* Bounds of the model
\* ------------------------------------------------------------------------
MaxClock == 200
MaxKeys == 2
MaxClockWide == 10
MaxKeysWide == 1
Stall == 50
MaxMenus == 1
MaxChoices == 2
MaxMenusLoop == 0
MaxClockMenu == 50
MaxKeysMenu == 2
SleepCut == 310
MaxClockStop == 50
MaxKeysStop == 3
MaxKeysLive == 1
MaxClockFair == 20
MaxKeysFair == 1

\* ------------------------------------------------------------------------
\* Program constants
\* ------------------------------------------------------------------------
NumPresets == 10
BaselineTimeout == 100
DefaultInterval == 1000
MinInterval == 10
CanMaxDlc == 8
IntMax == 2147483647
Half == 65536
CanFrameSize == 16
SleepMs == 1000

\* ------------------------------------------------------------------------
\* Characters
\* ------------------------------------------------------------------------
UpperChars == <<"A","B","C","D","E","F","G","H","I","J","K","L","M",
                "N","O","P","Q","R","S","T","U","V","W","X","Y","Z">>
LowerChars == <<"a","b","c","d","e","f","g","h","i","j","k","l","m",
                "n","o","p","q","r","s","t","u","v","w","x","y","z">>
DigitChars == <<"0","1","2","3","4","5","6","7","8","9">>

isdigit(c) == \E i \in 1..10 : DigitChars[i] = c

isxdigit(c) == \/ isdigit(c)
               \/ \E i \in 1..6 : UpperChars[i] = c \/ LowerChars[i] = c

\* std::isspace in the C locale: space, \t, \n, vertical tab, \f, \r.
isspace(c) == c \in {" ", "\t", "\n", "", "\f", "\r"}

tolower(c) == IF \E i \in 1..26 : UpperChars[i] = c
              THEN LowerChars[CHOOSE i \in 1..26 : UpperChars[i] = c]
              ELSE c

DigitVal(c) == (CHOOSE i \in 1..10 : DigitChars[i] = c) - 1

HexVal(c) == IF isdigit(c) THEN DigitVal(c)
             ELSE 9 + (CHOOSE i \in 1..6 : UpperChars[i] = c \/ LowerChars[i] = c)

to_lower(s) == [i \in 1..Len(s) |-> tolower(s[i])]

\* ------------------------------------------------------------------------
\* Sequence helpers
\* ------------------------------------------------------------------------
RECURSIVE Join(_)
Join(toks) == IF toks = <<>> THEN <<>>
              ELSE IF Len(toks) = 1 THEN Head(toks)
              ELSE Head(toks) \o <<" ">> \o Join(Tail(toks))

Min(a, b) == IF a < b THEN a ELSE b

\* ------------------------------------------------------------------------
\* Token validators (main.cpp)
\* ------------------------------------------------------------------------
is_valid_hex_token(token) ==
  /\ token # <<>>
  /\ \A i \in 1..Len(token) : isxdigit(token[i])

is_valid_flag(token, expected) ==
  /\ Len(token) = Len(expected)
  /\ to_lower(token) = expected

is_valid_can_id_token(token) ==
  /\ Len(token) >= 3
  /\ token[1] = "0"
  /\ token[2] \in {"x", "X"}
  /\ \A i \in 3..Len(token) : isxdigit(token[i])

is_valid_positive_int(token) ==
  /\ token # <<>>
  /\ \A i \in 1..Len(token) : isdigit(token[i])

\* ------------------------------------------------------------------------
\* parse_hex_bytes (io.cpp): strip whitespace, require an even number of
\* characters, decode pairwise; a non-hex character fails the whole parse.
\* ------------------------------------------------------------------------
StripSpace(s) == SelectSeq(s, LAMBDA c : ~isspace(c))

\* Variant: a byte may not straddle two tokens.
parse_hex_bytes_PerToken(input) ==
  LET hex == StripSpace(input) IN
  IF Len(hex) % 2 # 0 THEN [ok |-> FALSE, out |-> <<>>]
  ELSE IF \E i \in 1..Len(hex) : ~isxdigit(hex[i]) THEN [ok |-> FALSE, out |-> <<>>]
  ELSE IF \E i \in 1..Len(input) :
            isspace(input[i]) /\ Len(StripSpace(SubSeq(input, 1, i))) % 2 = 1
  THEN [ok |-> FALSE, out |-> <<>>]
  ELSE [ok |-> TRUE,
        out |-> [k \in 1..(Len(hex) \div 2) |->
                   16 * HexVal(hex[2 * k - 1]) + HexVal(hex[2 * k])]]

parse_hex_bytes(input) ==
  LET hex == StripSpace(input) IN
  IF Len(hex) % 2 # 0 THEN [ok |-> FALSE, out |-> <<>>]
  ELSE IF \E i \in 1..Len(hex) : ~isxdigit(hex[i]) THEN [ok |-> FALSE, out |-> <<>>]
  ELSE [ok |-> TRUE,
        out |-> [k \in 1..(Len(hex) \div 2) |->
                   16 * HexVal(hex[2 * k - 1]) + HexVal(hex[2 * k])]]

\* strtol / strtoul discard leading whitespace before they convert.
RECURSIVE SkipSpace(_)
SkipSpace(s) == IF s # <<>> /\ isspace(Head(s)) THEN SkipSpace(Tail(s)) ELSE s

\* ------------------------------------------------------------------------
\* std::stoi(s) (base 10, 32-bit int): leading whitespace is skipped, then
\* an optional sign, then the longest run of digits; no digit throws
\* invalid_argument, a value outside int throws out_of_range.  The magnitude is accumulated negated so that INT_MIN is
\* representable.  Result: [ok, val]; ok = FALSE stands for the throw.
\* ------------------------------------------------------------------------
IntMin == (-IntMax) - 1

RECURSIVE DecRun(_, _)
DecRun(s, i) == IF i > Len(s) \/ ~isdigit(s[i]) THEN <<>>
                ELSE <<s[i]>> \o DecRun(s, i + 1)

RECURSIVE HexRun(_, _)
HexRun(s, i) == IF i > Len(s) \/ ~isxdigit(s[i]) THEN <<>>
                ELSE <<s[i]>> \o HexRun(s, i + 1)

RECURSIVE NegAcc(_, _, _)
NegAcc(digs, i, n) ==
  IF i > Len(digs) THEN [ovf |-> FALSE, n |-> n]
  ELSE LET d == DigitVal(digs[i]) IN
       IF n > -214748364 \/ (n = -214748364 /\ d <= 8)
       THEN NegAcc(digs, i + 1, n * 10 - d)
       ELSE [ovf |-> TRUE, n |-> 0]

\* The conversion proper, s being the text after the leading whitespace.
strtol(s) ==
  LET signed == s # <<>> /\ s[1] \in {"+", "-"}
      neg    == s # <<>> /\ s[1] = "-"
      digs   == DecRun(s, IF signed THEN 2 ELSE 1)
      acc    == NegAcc(digs, 1, 0)
  IN IF digs = <<>> THEN [ok |-> FALSE, val |-> 0]
     ELSE IF acc.ovf THEN [ok |-> FALSE, val |-> 0]
     ELSE IF neg THEN [ok |-> TRUE, val |-> acc.n]
     ELSE IF acc.n = IntMin THEN [ok |-> FALSE, val |-> 0]
     ELSE [ok |-> TRUE, val |-> -acc.n]

stoi(str) == strtol(SkipSpace(str))

\* ------------------------------------------------------------------------
\* std::stoul(s, nullptr, 16) stored into a uint32_t: leading whitespace
\* is skipped, then an optional sign, an optional 0x prefix, longest run of hex digits; no digit throws
\* invalid_argument, more than 64 bits throws out_of_range; the 64-bit
\* result is truncated to its low 32 bits by the assignment.  A 32-bit
\* value is the record [hi, lo] of its 16-bit halves.
\* ------------------------------------------------------------------------
U32(hi, lo) == [hi |-> hi, lo |-> lo]

RECURSIVE DropZeros(_)
DropZeros(digs) == IF digs # <<>> /\ Head(digs) = "0" THEN DropZeros(Tail(digs)) ELSE digs

RECURSIVE HexAcc(_, _, _)
HexAcc(digs, i, v) ==
  IF i > Len(digs) THEN v
  ELSE LET d  == HexVal(digs[i])
           lo == v.lo * 16 + d
           hi == v.hi * 16 + (lo \div Half)
       IN HexAcc(digs, i + 1, U32(hi % Half, lo % Half))

NegU32(v) == IF v.lo = 0 THEN U32((Half - v.hi) % Half, 0)
             ELSE U32(Half - 1 - v.hi, Half - v.lo)

\* The conversion proper, s being the text after the leading whitespace.
strtoul16(s) ==
  LET signed == s # <<>> /\ s[1] \in {"+", "-"}
      neg    == s # <<>> /\ s[1] = "-"
      p      == IF signed THEN 2 ELSE 1
      pfx    == /\ Len(s) >= p + 2
                /\ s[p] = "0"
                /\ s[p + 1] \in {"x", "X"}
                /\ isxdigit(s[p + 2])
      digs   == HexRun(s, IF pfx THEN p + 2 ELSE p)
      v      == HexAcc(digs, 1, U32(0, 0))
  IN IF digs = <<>> THEN [ok |-> FALSE, val |-> U32(0, 0)]
     ELSE IF Len(DropZeros(digs)) > 16 THEN [ok |-> FALSE, val |-> U32(0, 0)]
     ELSE [ok |-> TRUE, val |-> IF neg THEN NegU32(v) ELSE v]

stoul16(str) == strtoul16(SkipSpace(str))

DefaultCanId == U32(0, 291)

\* `try { id = stoul(cfg["can_id"], 16); } catch (...) { id = 0x123; }`
cfg_can_id(str) == IF stoul16(str).ok THEN stoul16(str).val ELSE DefaultCanId

\* ------------------------------------------------------------------------
\* Display of CAN identifiers.
\* ------------------------------------------------------------------------
\* v / 10 and v % 10 of a 32-bit value held as 16-bit halves.
DivTen(v) ==
  LET mid == (v.hi % 10) * Half + v.lo
  IN [q |-> U32(v.hi \div 10, mid \div 10), r |-> mid % 10]

\* std::to_string(unsigned): decimal, no padding.
RECURSIVE to_string(_)
to_string(v) ==
  IF v.hi = 0 /\ v.lo < 10 THEN <<DigitChars[v.lo + 1]>>
  ELSE to_string(DivTen(v).q) \o <<DigitChars[DivTen(v).r + 1]>>

HexDigitChar(d) == IF d < 10 THEN DigitChars[d + 1] ELSE UpperChars[d - 9]

\* The eight upper-case hex digits of a 32-bit value.
HexDigits8(v) ==
  [i \in 1..8 |->
     LET h == IF i <= 4 THEN v.hi ELSE v.lo
         k == IF i <= 4 THEN 4 - i ELSE 8 - i
     IN HexDigitChar((h \div (16 ^ k)) % 16)]

RECURSIVE DropZerosTo(_, _)
DropZerosTo(digs, width) ==
  IF Len(digs) > width /\ Head(digs) = "0" THEN DropZerosTo(Tail(digs), width) ELSE digs

\* printf("0x%03X", id): upper-case hex, zero-padded to three digits.
TxIdText(id) == <<"0", "x">> \o DropZerosTo(HexDigits8(id), 3)

\* `"RX[ID:0x" + std::to_string(frame.can_id)`
RxIdText(id) == <<"0", "x">> \o to_string(id)

\* Identifiers of the frames the bus delivers.
RxIds == {U32(0, 7), U32(0, 291)}

\* ------------------------------------------------------------------------
\* Transport writes.  One record per write(2) call: the handle, the shape
\* written (a struct can_frame or a raw byte string), and the outcome drawn
\* by the environment: "ok" (all bytes), "short" (0 <= w < size) or "err"
\* (w < 0).
\* ------------------------------------------------------------------------
WriteResults == {"ok", "short", "err"}

NoId == [hi |-> -1, lo |-> -1]

FrameTx(fd, id, data, res) ==
  [fd |-> fd, kind |-> "frame", can_id |-> id, dlc |-> Len(data), data |-> data, res |-> res]

BytesTx(fd, data, res) ==
  [fd |-> fd, kind |-> "bytes", can_id |-> NoId, dlc |-> 0, data |-> data, res |-> res]

CRLF == <<"\r", "\n">>

\* send_can_bytes (io.cpp): dlc = min(size, 8), the first dlc bytes are
\* copied; true iff the whole frame was written.
send_can_bytes(fd, can_id, data, res) ==
  [ok |-> (res = "ok"),
   tx |-> <<FrameTx(fd, can_id, SubSeq(data, 1, Min(Len(data), CanMaxDlc)), res)>>]

\* send_serial_bytes (io.cpp): nothing is written for empty data.
send_serial_bytes(fd, data, res) ==
  IF data = <<>> THEN [ok |-> TRUE, tx |-> <<>>]
  ELSE [ok |-> (res = "ok"), tx |-> <<BytesTx(fd, data, res)>>]

\* send_serial_text (io.cpp)
send_serial_text(fd, text, append_crlf, res) ==
  LET msg == IF append_crlf THEN text \o CRLF ELSE text
  IN [ok |-> (res = "ok"), tx |-> <<BytesTx(fd, msg, res)>>]

NoSend == [ok |-> FALSE, tx |-> <<>>]

\* send_preset (io.cpp): cfg is the configuration record; its field
\* presets[n] holds preset<n>_format, preset<n>_data and preset<n>_can_id.
send_preset(fd, cfg, itype, preset_index, append_crlf, res) ==
  IF preset_index < 1 \/ preset_index > NumPresets THEN NoSend
  ELSE LET pr == cfg.presets[preset_index] IN
    IF pr.data = <<>> THEN NoSend
    ELSE IF itype = "CAN" THEN
      LET parsed     == parse_hex_bytes(pr.data)
          data       == IF Len(parsed.out) > CanMaxDlc
                        THEN SubSeq(parsed.out, 1, CanMaxDlc) ELSE parsed.out
          can_id_str == IF pr.can_id = <<>> THEN cfg.can_id ELSE pr.can_id
          id         == stoul16(can_id_str)
      IN IF ~parsed.ok THEN NoSend
         ELSE IF ~id.ok THEN NoSend
         ELSE send_can_bytes(fd, id.val, data, res)
    ELSE IF pr.format = "text" THEN send_serial_text(fd, pr.data, append_crlf, res)
    ELSE LET parsed == parse_hex_bytes(pr.data) IN
         IF ~parsed.ok THEN NoSend
         ELSE send_serial_bytes(fd, parsed.out, res)

\* ------------------------------------------------------------------------
\* Hex-mode flag parsing: the token loop of g_line_handler.  The scan state
\* carries the loop's locals; err # "" is the `break` with parse_error set,
\* abort is the std::out_of_range that std::stoi throws out of the handler
\* for an all-digit -t argument that does not fit an int.
\* ------------------------------------------------------------------------
F_id == <<"-", "i", "d">>
F_t  == <<"-", "t">>
F_r  == <<"-", "r">>
F_nr == <<"-", "n", "r">>

HexScanInit ==
  [parse_error |-> "", inline_can_id |-> U32(0, 0), has_inline_id |-> FALSE,
   start_inline_repeat |-> FALSE, inline_interval_ms |-> DefaultInterval,
   hex_tokens |-> <<>>, skip_reason |-> "", abort |-> FALSE]

HexScanArg(st, token) ==
  IF st.skip_reason = "-id" THEN
    IF ~is_valid_can_id_token(token)
    THEN [st EXCEPT !.parse_error = "Invalid CAN ID"]
    ELSE IF ~stoul16(token).ok
    THEN [st EXCEPT !.parse_error = "Invalid CAN ID"]
    ELSE [st EXCEPT !.inline_can_id = stoul16(token).val,
                    !.has_inline_id = TRUE, !.skip_reason = ""]
  ELSE
    IF ~is_valid_positive_int(token)
    THEN [st EXCEPT !.parse_error = "Invalid interval"]
    ELSE IF ~stoi(token).ok
    THEN [st EXCEPT !.abort = TRUE]
    ELSE IF stoi(token).val < MinInterval
    THEN [st EXCEPT !.inline_interval_ms = stoi(token).val,
                    !.parse_error = "Interval must be at least 10ms"]
    ELSE [st EXCEPT !.inline_interval_ms = stoi(token).val, !.skip_reason = ""]

HexScanToken(st, token) ==
  IF st.skip_reason # "" THEN HexScanArg(st, token)
  ELSE IF is_valid_flag(token, F_id) THEN [st EXCEPT !.skip_reason = "-id"]
  ELSE IF is_valid_flag(token, F_t) THEN [st EXCEPT !.skip_reason = "-t"]
  ELSE IF is_valid_flag(token, F_r) THEN [st EXCEPT !.start_inline_repeat = TRUE]
  ELSE IF token # <<>> /\ token[1] = "-" THEN [st EXCEPT !.parse_error = "Invalid flag"]
  ELSE IF ~is_valid_hex_token(token) THEN [st EXCEPT !.parse_error = "Invalid hex byte"]
  ELSE [st EXCEPT !.hex_tokens = Append(@, token)]

RECURSIVE HexScan(_, _, _)
HexScan(tokens, i, st) ==
  IF st.parse_error # "" \/ st.abort THEN st
  ELSE IF i > Len(tokens)
  THEN IF st.skip_reason # "" THEN [st EXCEPT !.parse_error = "Missing argument"] ELSE st
  ELSE HexScan(tokens, i + 1, HexScanToken(st, tokens[i]))

ParseHexLine(tokens) == HexScan(tokens, 1, HexScanInit)

\* ------------------------------------------------------------------------
\* g_line_handler.  S is the state the lambda captures by reference:
\* [preset_repeats, inline_repeat, cfg, append_crlf, itype, fd, show_menu,
\* now]; now is the value Clock::now() returns during the call.  The result
\* holds the fields the handler may assign, the write it issued (tx), the
\* messages it printed (msgs), whether it assigned the inline slot (armed)
\* and whether an exception left the handler.
\* ------------------------------------------------------------------------
Ret(S) ==
  [preset_repeats |-> S.preset_repeats, inline_repeat |-> S.inline_repeat,
   cfg |-> S.cfg, append_crlf |-> S.append_crlf, show_menu |-> S.show_menu,
   tx |-> <<>>, msgs |-> <<>>, armed |-> FALSE, abort |-> FALSE]

Say(S, m) == [Ret(S) EXCEPT !.msgs = <<m>>]

\* /p token loop: -r, -nr, and -t followed by a token; anything else is
\* skipped.  `-t` consumes its argument even when std::stoi throws.
RECURSIVE PScan(_, _, _)
PScan(tokens, i, acc) ==
  IF i > Len(tokens) THEN acc
  ELSE LET t == to_lower(tokens[i]) IN
    IF t = F_r THEN PScan(tokens, i + 1, [acc EXCEPT !.start_repeat = TRUE])
    ELSE IF t = F_nr THEN PScan(tokens, i + 1, [acc EXCEPT !.stop_repeat = TRUE])
    ELSE IF t = F_t /\ i < Len(tokens)
    THEN PScan(tokens, i + 2,
               IF stoi(tokens[i + 1]).ok
               THEN [acc EXCEPT !.custom_interval = stoi(tokens[i + 1]).val]
               ELSE acc)
    ELSE PScan(tokens, i + 1, acc)

\* Variant: an interval of zero is taken as given.
ArmPreset_AcceptZero(slot, custom_interval, tnow) ==
  LET ms == IF custom_interval >= 0 THEN custom_interval ELSE slot.interval_ms
  IN [enabled |-> TRUE, interval_ms |-> ms, next_fire |-> tnow + ms]

\* Variant: arming a slot that is already enabled keeps its deadline.
ArmPreset_KeepDeadline(slot, custom_interval, tnow) ==
  LET ms == IF custom_interval > 0 THEN custom_interval ELSE slot.interval_ms
  IN [enabled |-> TRUE, interval_ms |-> ms,
      next_fire |-> IF slot.enabled THEN slot.next_fire ELSE tnow + ms]

\* The start_repeat branch of /p: enable, take the interval if one was
\* given, re-arm from now.
ArmPreset(slot, custom_interval, tnow) ==
  LET ms == IF custom_interval > 0 THEN custom_interval ELSE slot.interval_ms
  IN [enabled |-> TRUE, interval_ms |-> ms, next_fire |-> tnow + ms]

\* Variant: one repeating preset at a time, arming one stops the others.
ArmPresetSlots_Exclusive(slots, idx, custom_interval, tnow) ==
  [i \in DOMAIN slots |->
     IF i = idx THEN ArmPreset(slots[i], custom_interval, tnow)
     ELSE [slots[i] EXCEPT !.enabled = FALSE]]

\* `g_preset_repeats[preset_idx]` is the only element the branch assigns.
ArmPresetSlots(slots, idx, custom_interval, tnow) ==
  [slots EXCEPT ![idx] = ArmPreset(@, custom_interval, tnow)]

\* Variant: the start_repeat branch also sends the preset at once.
ArmPresetTx_Send(S, idx, res) ==
  send_preset(S.fd, S.cfg, S.itype, idx, S.append_crlf, res).tx

\* The start_repeat branch prints and returns: it calls no send function.
ArmPresetTx(S, idx, res) == <<>>

\* Variant: -nr flips the enabled flag instead of clearing it.
StopPreset_Toggle(slot) == [slot EXCEPT !.enabled = ~@]

\* `/p N -nr`: preset_repeats[idx - 1].enabled = false.
StopPreset(slot) == [slot EXCEPT !.enabled = FALSE]

CmdP(args, S, res) ==
  IF args = <<>> THEN Say(S, "Usage: /p N [-r [-t MS]] [-nr]")
  ELSE LET idx == IF stoi(args[1]).ok THEN stoi(args[1]).val ELSE 0
           f   == PScan(args, 2, [start_repeat |-> FALSE, stop_repeat |-> FALSE,
                                  custom_interval |-> -1])
       IN
    IF idx < 1 \/ idx > NumPresets THEN Say(S, "Usage: /p N (1-10)")
    ELSE IF f.stop_repeat
    THEN [Ret(S) EXCEPT !.preset_repeats[idx] = StopPreset(@),
                        !.msgs = <<"Preset repeat stopped">>]
    ELSE IF f.start_repeat
    THEN [Ret(S) EXCEPT
            !.preset_repeats = ArmPresetSlots(@, idx, f.custom_interval, S.now),
            !.tx = ArmPresetTx(S, idx, res),
            !.msgs = <<"Preset repeating">>]
    ELSE LET r == send_preset(S.fd, S.cfg, S.itype, idx, S.append_crlf, res)
         IN [Ret(S) EXCEPT !.tx = r.tx,
                           !.msgs = <<IF r.ok THEN "Preset sent" ELSE "Preset failed">>]

CmdRs(args, S) ==
  IF args # <<>> /\ to_lower(Join(args)) = <<"s", "t", "o", "p">>
  THEN IF S.inline_repeat.enabled
       THEN [Ret(S) EXCEPT !.inline_repeat.enabled = FALSE,
                           !.msgs = <<"Inline repeat stopped">>]
       ELSE Say(S, "No inline repeat is active")
  ELSE Say(S, "Repeat Status")

\* Variant: /ra stops the presets and leaves the inline repeat running.
CmdRa_PresetsOnly(S) ==
  [Ret(S) EXCEPT !.preset_repeats = [i \in 1..NumPresets |->
                                       [S.preset_repeats[i] EXCEPT !.enabled = FALSE]],
                 !.msgs = <<"All repeats stopped">>]

CmdRa(S) ==
  [Ret(S) EXCEPT !.inline_repeat.enabled = FALSE,
                 !.preset_repeats = [i \in 1..NumPresets |->
                                       [S.preset_repeats[i] EXCEPT !.enabled = FALSE]],
                 !.msgs = <<"All repeats stopped">>]

CmdHex(args, S, res) ==
  LET parsed == parse_hex_bytes(Join(args)) IN
  IF ~parsed.ok \/ parsed.out = <<>> THEN Say(S, "Usage: /hex XX XX XX ...")
  ELSE LET r == IF S.itype = "CAN"
                THEN send_can_bytes(S.fd, cfg_can_id(S.cfg.can_id), parsed.out, res)
                ELSE send_serial_bytes(S.fd, parsed.out, res)
       IN [Ret(S) EXCEPT !.tx = r.tx, !.msgs = <<IF r.ok THEN "Sent" ELSE "Failed">>]

CmdCan(args, S, res) ==
  LET id_str   == IF args = <<>> THEN <<>> ELSE args[1]
      data_str == IF args = <<>> THEN <<>> ELSE Join(Tail(args))
      id       == stoul16(id_str)
      parsed   == parse_hex_bytes(data_str)
  IN IF ~id.ok THEN Say(S, "Usage: /can ID XX XX ...")
     ELSE IF data_str # <<>> /\ ~parsed.ok THEN Say(S, "Invalid hex data")
     ELSE LET r == send_can_bytes(S.fd, id.val, parsed.out, res)
          IN [Ret(S) EXCEPT !.tx = r.tx, !.msgs = <<IF r.ok THEN "Sent" ELSE "Failed">>]

CmdMode(args, S) ==
  LET a == to_lower(Join(args)) IN
  IF a = <<"h", "e", "x">> THEN [Ret(S) EXCEPT !.cfg.mode = "hex", !.msgs = <<"Mode set">>]
  ELSE IF a = <<"n", "o", "r", "m", "a", "l">>
  THEN [Ret(S) EXCEPT !.cfg.mode = "normal", !.msgs = <<"Mode set">>]
  ELSE Say(S, "Usage: /mode normal|hex")

CmdCrlf(args, S) ==
  LET a == to_lower(Join(args)) IN
  IF a = <<"o", "n">> THEN [Ret(S) EXCEPT !.append_crlf = TRUE, !.msgs = <<"CRLF is now ON">>]
  ELSE IF a = <<"o", "f", "f">>
  THEN [Ret(S) EXCEPT !.append_crlf = FALSE, !.msgs = <<"CRLF is now OFF">>]
  ELSE Say(S, "Usage: /crlf on|off")

\* `if (interval_ms < 10) { ... return; }`
RptIntervalOk(interval_ms) == ~(interval_ms < MinInterval)

\* /rpt MS text: the inline slot is written first, then the text is sent
\* once; a write error (w < 0) disables the slot again.
CmdRpt(args, S, res) ==
  IF args = <<>> THEN [Ret(S) EXCEPT !.msgs = <<"Usage: /rpt MS text", "Example", "Example">>]
  ELSE LET ms_str == args[1]
           text   == Join(Tail(args))
       IN
    IF ~is_valid_positive_int(ms_str)
    THEN [Ret(S) EXCEPT !.msgs = <<"Error: First argument must be interval", "Usage: /rpt MS text">>]
    ELSE IF text = <<>>
    THEN [Ret(S) EXCEPT !.msgs = <<"Error: No text to repeat", "Usage: /rpt MS text">>]
    ELSE IF ~stoi(ms_str).ok THEN [Ret(S) EXCEPT !.abort = TRUE]
    ELSE LET interval_ms == stoi(ms_str).val IN
      IF ~RptIntervalOk(interval_ms) THEN Say(S, "Error: Interval must be at least 10ms")
      ELSE IF S.itype = "CAN" THEN
        LET id   == cfg_can_id(S.cfg.can_id)
            txt8 == IF Len(text) > CanMaxDlc THEN SubSeq(text, 1, CanMaxDlc) ELSE text
            inl  == [S.inline_repeat EXCEPT
                       !.enabled = (res # "err"), !.is_can = TRUE, !.is_hex = FALSE,
                       !.text_data = txt8, !.append_crlf = S.append_crlf,
                       !.interval_ms = interval_ms, !.next_fire = S.now + interval_ms,
                       !.can_id = id]
        IN [Ret(S) EXCEPT !.inline_repeat = inl, !.armed = TRUE,
                          !.tx = <<FrameTx(S.fd, id, txt8, res)>>,
                          !.msgs = IF res = "err" THEN <<"Write error">>
                                   ELSE <<"Text repeat started", "Use /rs stop">>]
      ELSE
        LET msg == IF S.append_crlf THEN text \o CRLF ELSE text
            inl == [S.inline_repeat EXCEPT
                      !.enabled = (res # "err"), !.is_can = FALSE, !.is_hex = FALSE,
                      !.text_data = text, !.append_crlf = S.append_crlf,
                      !.interval_ms = interval_ms, !.next_fire = S.now + interval_ms]
        IN [Ret(S) EXCEPT !.inline_repeat = inl, !.armed = TRUE,
                          !.tx = <<BytesTx(S.fd, msg, res)>>,
                          !.msgs = IF res = "err" THEN <<"Write error">>
                                   ELSE <<"Text repeat started", "Use /rs stop">>]

\* Command names that only print or change settings outside the model.
InfoCommands ==
  { <<"h","e","l","p">>, <<"h">>, <<"c","l","e","a","r">>, <<"s","t","a","t","u","s">>,
    <<"d","e","v","i","c","e">>, <<"b","a","u","d">>, <<"r">>, <<"r","i">>, <<"r","p">> }

\* `body = trim(line.substr(1)); [cmd, arg] = split_first(body)`
CmdTokens(line) ==
  IF Len(Head(line)) = 1 THEN Tail(line) ELSE <<Tail(Head(line))>> \o Tail(line)

SlashCommand(line, S, res) ==
  LET body == CmdTokens(line)
      cmd  == IF body = <<>> THEN <<>> ELSE to_lower(Head(body))
      args == IF body = <<>> THEN <<>> ELSE Tail(body)
  IN CASE cmd = <<"m","e","n","u">> -> [Ret(S) EXCEPT !.show_menu = TRUE]
       [] cmd = <<"r","s">>         -> CmdRs(args, S)
       [] cmd = <<"r","a">>         -> CmdRa(S)
       [] cmd = <<"p">>             -> CmdP(args, S, res)
       [] cmd = <<"h","e","x">>     -> CmdHex(args, S, res)
       [] cmd = <<"c","a","n">>     -> CmdCan(args, S, res)
       [] cmd = <<"m","o","d","e">> -> CmdMode(args, S)
       [] cmd = <<"c","r","l","f">> -> CmdCrlf(args, S)
       [] cmd = <<"r","p","t">>     -> CmdRpt(args, S, res)
       [] cmd \in InfoCommands      -> Say(S, "Info")
       [] OTHER                     -> Say(S, "Unknown command. Type /help")

\* `std::string text = line;  // Send exactly what user typed`
TextPayload(line) == Join(line)

\* Text mode: the line is the payload; truncated to 8 characters on CAN.
TextLine(line, S, res) ==
  LET text == TextPayload(line) IN
  IF S.itype = "CAN" THEN
    LET long == Len(text) > CanMaxDlc
        txt8 == IF long THEN SubSeq(text, 1, CanMaxDlc) ELSE text
    IN [Ret(S) EXCEPT
          !.tx = <<FrameTx(S.fd, cfg_can_id(S.cfg.can_id), txt8, res)>>,
          !.msgs = (IF long THEN <<"Warning: CAN data truncated to 8 bytes">> ELSE <<>>)
                   \o <<IF res = "err" THEN "Write error" ELSE "TX">>]
  ELSE
    [Ret(S) EXCEPT
       !.tx = <<BytesTx(S.fd, IF S.append_crlf THEN text \o CRLF ELSE text, res)>>,
       !.msgs = <<IF res = "err" THEN "Write error" ELSE "TX">>]

\* Variant: the size check is off by one.
CanTooLong_OffByOne(is_can, data) == is_can /\ Len(data) > CanMaxDlc + 1

\* `if (itype == InterfaceType::CAN) { if (data.size() > 8) {`
CanTooLong(is_can, data) == is_can /\ Len(data) > CanMaxDlc

\* Variant: the arm leaves the format flag of the slot as it was.
ArmInlineHex_KeepFormat(inl, is_can, can_id, data, interval_ms, now, res) ==
  [inl EXCEPT !.enabled = (res # "err"), !.is_can = is_can,
              !.can_id = IF is_can THEN can_id ELSE @,
              !.data = data, !.interval_ms = interval_ms,
              !.next_fire = now + interval_ms]

\* Variant: the arm leaves the slot enabled whatever the first write did.
ArmInlineHex_KeepEnabled(inl, is_can, can_id, data, interval_ms, now, res) ==
  [inl EXCEPT !.enabled = TRUE, !.is_can = is_can, !.is_hex = TRUE,
              !.can_id = IF is_can THEN can_id ELSE @,
              !.data = data, !.interval_ms = interval_ms,
              !.next_fire = now + interval_ms]

\* The inline arm of a hex-mode line carrying -r.
ArmInlineHex(inl, is_can, can_id, data, interval_ms, now, res) ==
  [inl EXCEPT !.enabled = (res # "err"), !.is_can = is_can, !.is_hex = TRUE,
              !.can_id = IF is_can THEN can_id ELSE @,
              !.data = data, !.interval_ms = interval_ms,
              !.next_fire = now + interval_ms]

HexLine(line, S, res) ==
  LET st     == ParseHexLine(line)
      parsed == parse_hex_bytes(Join(st.hex_tokens))
      data   == parsed.out
      id     == IF st.has_inline_id THEN st.inline_can_id ELSE cfg_can_id(S.cfg.can_id)
      is_can == (S.itype = "CAN")
      tx     == IF is_can THEN FrameTx(S.fd, id, data, res) ELSE BytesTx(S.fd, data, res)
  IN
  IF st.abort THEN [Ret(S) EXCEPT !.abort = TRUE]
  ELSE IF st.parse_error # "" THEN Say(S, "Error: " \o st.parse_error)
  ELSE IF st.hex_tokens # <<>> /\ ~parsed.ok THEN Say(S, "Error: Invalid hex format")
  ELSE IF data = <<>> THEN Say(S, "Error: No data to send")
  ELSE IF CanTooLong(is_can, data) THEN Say(S, "Error: CAN data max 8 bytes")
  ELSE IF st.start_inline_repeat
  THEN [Ret(S) EXCEPT
          !.inline_repeat = ArmInlineHex(@, is_can, id, data, st.inline_interval_ms, S.now, res),
          !.armed = TRUE,
          !.tx = <<tx>>,
          !.msgs = IF res = "err" THEN <<"Write error">>
                   ELSE <<"Inline repeat started", "Use /rs stop">>]
  ELSE [Ret(S) EXCEPT !.tx = <<tx>>,
                      !.msgs = <<IF res = "err" THEN "Write error" ELSE "TX">>]

\* Variant: the mode is looked at before the leading slash.
LineHandler_ModeFirst(line, S, res) ==
  IF S.cfg.mode # "hex" THEN TextLine(line, S, res)
  ELSE IF Head(line) # <<>> /\ Head(line)[1] = "/" THEN SlashCommand(line, S, res)
  ELSE HexLine(line, S, res)

\* The handler for a non-null, non-empty line.
LineHandler(line, S, res) ==
  IF Head(line) # <<>> /\ Head(line)[1] = "/" THEN SlashCommand(line, S, res)
  ELSE IF S.cfg.mode # "hex" THEN TextLine(line, S, res)
  ELSE HexLine(line, S, res)

\* ------------------------------------------------------------------------
\* Input alphabet: tokens and the lines typed at the prompt.
\* ------------------------------------------------------------------------
RECURSIVE DecDigits(_)
DecDigits(n) == IF n < 10 THEN <<DigitChars[n + 1]>>
                ELSE DecDigits(n \div 10) \o <<DigitChars[(n % 10) + 1]>>

K_p   == <<"/", "p">>
K_rpt == <<"/", "r", "p", "t">>
H_AA  == <<"A", "A">>
H_BB  == <<"B", "B">>
H_41  == <<"4", "1">>
H_4   == <<"4">>
H_9B  == <<"0","0","1","1","2","2","3","3","4","4","5","5","6","6","7","7","8","8">>
T_7FF == <<"0", "x", "7", "F", "F">>
T_hello == <<"h", "e", "l", "l", "o">>

\* Hex-mode lines the grammar accepts and that carry -r, each with the
\* bytes, the CAN id and the interval it spells out.
HexArmForms ==
  { [line |-> <<H_AA, H_BB, F_r>>,
     data |-> <<170, 187>>, has_id |-> FALSE, id |-> U32(0, 0), interval_ms |-> 1000],
    [line |-> <<H_AA, H_BB, F_id, T_7FF, F_r, F_t, DecDigits(50)>>,
     data |-> <<170, 187>>, has_id |-> TRUE, id |-> U32(0, 2047), interval_ms |-> 50],
    [line |-> <<F_id, <<"0", "X", "3">>, H_4, H_4, <<"-", "R">>, <<"-", "T">>, DecDigits(10)>>,
     data |-> <<68>>, has_id |-> TRUE, id |-> U32(0, 3), interval_ms |-> 10],
    [line |-> <<F_id, <<"0", "X", "3">>, H_4, H_4, <<"-", "R">>, <<"-", "T">>, DecDigits(100)>>,
     data |-> <<68>>, has_id |-> TRUE, id |-> U32(0, 3), interval_ms |-> 100],
    [line |-> <<F_t, DecDigits(250), H_41, F_r>>,
     data |-> <<65>>, has_id |-> FALSE, id |-> U32(0, 0), interval_ms |-> 250] }

HexArmLines == {f.line : f \in HexArmForms}

\* Hex-mode lines the grammar accepts without -r.
HexOnceLines ==
  { <<H_AA, H_BB>>, <<H_41, F_t, DecDigits(50)>>,
    <<H_AA, F_id, <<"0", "x", "8", "0", "0", "0", "0", "1", "2", "3">>>> }

\* Hex-mode lines that violate the grammar: unknown flag, malformed or
\* missing flag argument, non-hex data token, odd number of hex digits.
HexBadLines ==
  { <<H_AA, <<"-", "x">>, F_r>>,
    <<H_AA, <<"-", "r", "r">>>>,
    <<H_AA, F_id, <<"7", "F", "F">>, F_r>>,
    <<H_AA, F_r, <<"-", "I", "D">>, <<"0", "x">>>>,
    <<H_AA, F_r, F_id>>,
    <<F_id, H_AA, F_r>>,
    <<H_41, F_id, F_id, T_7FF>>,
    <<H_AA, F_r, F_t>>,
    <<H_AA, F_r, F_t, DecDigits(5)>>,
    <<H_AA, F_r, F_t, <<"5", "0", "m", "s">>>>,
    <<H_AA, F_r, F_t, <<"-", "5", "0">>>>,
    <<H_AA, <<"G", "G">>, F_r>>,
    <<<<"0", "x", "4", "1">>, F_r>>,
    <<H_41, H_4, F_r>>,
    <<<<"4", "1", "4">>>> }

\* Hex-mode lines of nine bytes, as one token and as nine.
H_9T == <<H_AA, H_BB, <<"C","C">>, <<"D","D">>, <<"E","E">>, <<"F","F">>,
          <<"0","0">>, <<"1","1">>, <<"2","2">>>>

HexLongLines == { <<H_9B, F_r>>, H_9T, H_9T \o <<F_r, F_t, DecDigits(50)>> }

\* An all-digit token whose value is beyond INT_MAX.
D_Huge == <<"9","9","9","9","9","9","9","9","9","9","9">>

\* Other hex-mode lines: no data, nine bytes, an interval beyond int.
HexOtherLines ==
  HexLongLines \cup
  { <<F_r>>, <<H_AA, F_r, F_t, D_Huge>>, <<H_AA, F_t, D_Huge, F_id>> }

\* Hex-mode lines without flags and with an even number of hex digits,
\* split into tokens in several ways.
HexPlainLines ==
  { <<H_AA, H_BB>>, <<H_4, <<"1">>>>, <<H_4, <<"1", "a">>, <<"B">>>>,
    <<<<"4", "1", "4", "2">>>>, H_9T }

\* Families of hex-mode lines that differ only in where the flags stand:
\* each flag keeps its argument and the data tokens keep their order.
HexPermFamilies ==
  { { <<H_AA, H_BB, F_id, T_7FF, F_r, F_t, DecDigits(50)>>,
      <<F_t, DecDigits(50), F_r, F_id, T_7FF, H_AA, H_BB>>,
      <<H_AA, F_r, H_BB, F_t, DecDigits(50), F_id, T_7FF>> },
    { <<H_AA, F_r, F_t, DecDigits(5)>>, <<F_t, DecDigits(5), H_AA, F_r>> },
    { <<<<"G", "G">>, F_t, D_Huge>>, <<F_t, D_Huge, <<"G", "G">>>> } }

HexLines == HexArmLines \cup HexOnceLines \cup HexBadLines \cup HexOtherLines
            \cup HexPlainLines \cup UNION HexPermFamilies

PresetLines ==
  UNION { { <<K_p, DecDigits(n), F_r>>,
            <<K_p, DecDigits(n), F_r, F_t, DecDigits(50)>>,
            <<K_p, DecDigits(n), F_nr>> } : n \in 1..NumPresets }
  \cup { <<K_p, DecDigits(1)>>, <<K_p, DecDigits(10)>>,
         <<K_p, DecDigits(2), F_r, F_t, DecDigits(5)>>,
         <<K_p, DecDigits(3), F_r, F_t, DecDigits(0)>>,
         <<K_p, DecDigits(11), F_r>>,
         <<K_p, DecDigits(3), F_t, DecDigits(20), <<"-", "R">>>> }

\* /rpt lines with an interval of at least 10 ms and a text, each with
\* the interval it spells out.
RptArmForms ==
  { [line |-> <<K_rpt, DecDigits(10), T_hello>>, interval_ms |-> 10, text |-> T_hello],
    [line |-> <<K_rpt, DecDigits(100), T_hello>>, interval_ms |-> 100, text |-> T_hello],
    [line |-> <<K_rpt, DecDigits(100), F_r, <<"t", "e", "s", "t">>, <<"l", "o", "n", "g">>>>,
     interval_ms |-> 100,
     text |-> <<"-", "r", " ", "t", "e", "s", "t", " ", "l", "o", "n", "g">>] }

RptArmLines == {f.line : f \in RptArmForms}

\* /rpt lines with an interval below 10 ms.
RptBadLines == { <<K_rpt, DecDigits(5), T_hello>>, <<K_rpt, DecDigits(9), T_hello>> }

RptLines == RptArmLines \cup RptBadLines

\* Commands whose payload is longer than a CAN frame: nine bytes for /hex
\* and /can, twelve characters for /rpt, the nine bytes of preset 10.
CanLongCommandLines ==
  { <<<<"/", "h", "e", "x">>, H_9B>>,
    <<<<"/", "c", "a", "n">>, <<"7", "F", "F">>, H_9B>>,
    <<K_rpt, DecDigits(100), F_r, <<"t", "e", "s", "t">>, <<"l", "o", "n", "g">>>>,
    <<K_p, DecDigits(10)>> }

OtherCommandLines ==
  CanLongCommandLines \cup
  { <<<<"/", "r", "a">>>>, <<<<"/", "r", "s">>, <<"s", "t", "o", "p">>>>,
    <<<<"/", "m", "e", "n", "u">>>>,
    <<<<"/", "m", "o", "d", "e">>, <<"h", "e", "x">>>>,
    <<<<"/", "c", "r", "l", "f">>, <<"o", "f", "f">>>>,
    <<<<"/", "h", "e", "x">>, H_AA, H_BB>>,
    <<<<"/", "c", "a", "n">>, <<"7", "F", "F">>, H_41>>,
    <<<<"/", "b", "o", "g", "u", "s">>>>,
    <<<<"/", "A", "A">>, H_BB, F_r>>,
    <<K_rpt, D_Huge, T_hello>> }

TextLines == { <<T_hello, F_r, F_t, DecDigits(500)>> }

Lines == HexLines \cup PresetLines \cup RptLines \cup OtherCommandLines \cup TextLines

\* ------------------------------------------------------------------------
\* State
\* ------------------------------------------------------------------------
VARIABLES
  pc,              \* position of main: "top", "menu", "back", "poll", "fire", "rx",
                   \* "kbd", "done", "aborted"
  keep_running,    \* g_keep_running
  show_menu,       \* g_show_menu
  clock,           \* the steady clock, ms
  now,             \* local `now` of the loop body
  timeout_ms,      \* local timeout_ms handed to poll
  preset_repeats,  \* g_preset_repeats, indexed 1..10
  inline_repeat,   \* g_inline_repeat
  cfg,             \* the configuration map (the keys the loop reads)
  append_crlf,
  itype,           \* "SERIAL" or "CAN"
  fd,              \* the transport handle, -1 when invalid
  revents,         \* what poll reported: [rx, kbd]
  iter_log,        \* what the current iteration did so far, in order
  last,            \* the keyboard event handled last in this iteration
  keys_done,       \* keyboard events handled so far
  menus,           \* menu visits so far
  choices,         \* answers given in the current menu visit
  need_reconnect,  \* local need_reconnect of show_settings_menu
  menu_ms,         \* time spent in sleep(1) by the menu and the reconnect
  cin_failed,      \* std::cin has its fail bit set (a getline was interrupted)
  open_fds,        \* handles opened and not yet closed
  scope,           \* which inputs are explored: "loop" (few lines, long runs) or "wide"
  inline_armed,    \* history: the latest arming of the inline slot
  history          \* history: the lines handled so far (kept in scope "stop")

vars == <<pc, keep_running, show_menu, clock, now, timeout_ms, preset_repeats,
          inline_repeat, cfg, append_crlf, itype, fd, revents, iter_log, last,
          keys_done, menus, choices, need_reconnect, menu_ms, cin_failed, open_fds, scope,
          inline_armed, history>>

Slots == 0..NumPresets   \* 0 is the inline slot, n >= 1 preset n

NoEvent == [kind |-> "none", line |-> <<>>, tx |-> <<>>, msgs |-> <<>>, armed |-> FALSE]

\* PresetRepeatState{} (adamcom.hpp)
PresetInit == [enabled |-> FALSE, interval_ms |-> DefaultInterval, next_fire |-> 0]

\* g_inline_repeat{}: value-initialised, disabled.
InlineInit ==
  [enabled |-> FALSE, is_can |-> FALSE, is_hex |-> FALSE, can_id |-> U32(0, 0),
   data |-> <<>>, text_data |-> <<>>, append_crlf |-> FALSE,
   interval_ms |-> 0, next_fire |-> 0]

\* The presets of the profile read at start.
PresetCfg(n) ==
  CASE n = 1  -> [format |-> "hex",  data |-> <<"0","1"," ","0","2">>, can_id |-> <<"0","x","1","0","1">>]
    [] n = 2  -> [format |-> "text", data |-> <<"h","i">>, can_id |-> <<"0","x","1","2","3">>]
    [] n = 10 -> [format |-> "hex",  data |-> H_9B, can_id |-> <<>>]
    [] OTHER  -> [format |-> "hex",  data |-> <<>>, can_id |-> <<"0","x","1","2","3">>]

\* --repeat N,MS as given on the command line; <<0, 0>> when absent.
StartRepeats == { <<0, 0>>, <<2, 5>>, <<11, 100>> }

\* main before the loop: `if (start_repeat_preset > 0 && start_repeat_ms > 0)`
StartRepeat(opt, t) ==
  [i \in 1..NumPresets |->
     IF opt[1] > 0 /\ opt[2] > 0 /\ i = opt[1]
     THEN [enabled |-> TRUE, interval_ms |-> opt[2], next_fire |-> t + opt[2]]
     ELSE PresetInit]

\* The lines explored by long runs of the loop.
LoopLines ==
  { <<H_AA, H_BB, F_id, T_7FF, F_r, F_t, DecDigits(50)>>,
    <<F_id, <<"0", "X", "3">>, H_4, H_4, <<"-", "R">>, <<"-", "T">>, DecDigits(100)>>,
    <<H_AA, H_BB>>,
    <<H_AA, F_r, F_t, DecDigits(5)>>,
    <<K_rpt, DecDigits(100), T_hello>>,
    <<K_p, DecDigits(1), F_r, F_t, DecDigits(50)>>,
    <<K_p, DecDigits(2), F_r, F_t, DecDigits(100)>>,
    <<K_p, DecDigits(10), F_r>>,
    <<K_p, DecDigits(1), F_nr>>,
    <<<<"/", "r", "a">>>>,
    <<<<"/", "r", "s">>, <<"s", "t", "o", "p">>>>,
    <<<<"/", "c", "r", "l", "f">>, <<"o", "f", "f">>>>,
    <<<<"/", "m", "o", "d", "e">>, <<"n", "o", "r", "m", "a", "l">>>> }

\* The lines explored by runs that arm and stop repeats.
StopLines ==
  { <<K_p, DecDigits(1), F_r, F_t, DecDigits(50)>>,
    <<K_p, DecDigits(1), F_nr>>,
    <<K_p, DecDigits(2), F_nr>>,
    <<H_AA, H_BB, F_id, T_7FF, F_r, F_t, DecDigits(50)>>,
    <<<<"/", "r", "s">>, <<"s", "t", "o", "p">>>> }

\* The lines explored by runs that re-arm a running repeat.
FairLines ==
  { <<K_p, DecDigits(2), F_r, F_t, DecDigits(50)>>,
    <<K_p, DecDigits(2), F_nr>>,
    <<F_id, <<"0", "X", "3">>, H_4, H_4, <<"-", "R">>, <<"-", "T">>, DecDigits(10)>> }

\* The lines explored by runs that visit the menu: repeats that the
\* settings changed there can affect, and the commands that stop them.
MenuLines ==
  { <<K_rpt, DecDigits(100), T_hello>>,
    <<H_AA, H_BB, F_r>>,
    <<K_p, DecDigits(1), F_r, F_t, DecDigits(50)>>,
    <<K_p, DecDigits(2), F_r, F_t, DecDigits(100)>>,
    <<K_p, DecDigits(10), F_r>>,
    <<K_p, DecDigits(1), F_nr>>,
    <<<<"/", "r", "s">>, <<"s", "t", "o", "p">>>>,
    <<<<"/", "r", "a">>>> }

InputLines == CASE scope = "loop" -> LoopLines
                  [] scope = "menu" -> MenuLines
                  [] scope \in {"stop", "live"} -> StopLines
                  [] scope = "fair" -> FairLines
                  [] OTHER -> Lines
KeyLimit   == CASE scope = "loop" -> MaxKeys [] scope = "stop" -> MaxKeysStop
                [] scope = "menu" -> MaxKeysMenu
                [] scope = "live" -> MaxKeysLive [] scope = "fair" -> MaxKeysFair
                [] OTHER -> MaxKeysWide
ClockLimit == CASE scope = "loop" -> MaxClock
                  [] scope = "menu" -> MaxClockMenu
                  [] scope \in {"stop", "live"} -> MaxClockStop
                  [] scope = "fair" -> MaxClockFair
                  [] OTHER -> MaxClockWide

\* The menu visits in which answers other than Q are explored.
MenuLimit == CASE scope = "menu" -> MaxMenus [] OTHER -> MaxMenusLoop

InitCommon ==
  /\ pc = "top"
  /\ keep_running = TRUE
  /\ show_menu = FALSE
  /\ clock = 0
  /\ now = 0
  /\ timeout_ms = BaselineTimeout
  /\ \E opt \in StartRepeats : preset_repeats = StartRepeat(opt, 0)
  /\ inline_repeat = InlineInit
  /\ \E m \in {"normal", "hex"} :
       cfg = [mode |-> m, can_id |-> <<"0","x","1","2","3">>,
              presets |-> [n \in 1..NumPresets |-> PresetCfg(n)]]
  /\ append_crlf = TRUE
  /\ itype \in {"SERIAL", "CAN"}
  /\ fd = 3
  /\ revents = [rx |-> FALSE, kbd |-> FALSE]
  /\ iter_log = <<>>
  /\ last = NoEvent
  /\ keys_done = 0
  /\ menus = 0
  /\ choices = 0
  /\ need_reconnect = FALSE
  /\ menu_ms = 0
  /\ cin_failed = FALSE
  /\ open_fds = {3}
  /\ inline_armed = [n |-> 0, line |-> <<>>, tx |-> <<>>]
  /\ history = <<>>

Init ==
  /\ InitCommon
  /\ scope = "loop"
  /\ preset_repeats = StartRepeat(<<0, 0>>, 0)
  /\ cfg.mode = "hex"

InitWide == InitCommon /\ scope = "wide"

InitStop ==
  /\ InitCommon
  /\ scope = "stop"
  /\ preset_repeats = StartRepeat(<<0, 0>>, 0)
  /\ cfg.mode = "hex"

InitLive ==
  /\ InitCommon
  /\ scope = "live"
  /\ cfg.mode = "hex"

InitFair ==
  /\ InitCommon
  /\ scope = "fair"
  /\ cfg.mode = "hex"

InitMenu ==
  /\ InitCommon
  /\ scope = "menu"
  /\ preset_repeats = StartRepeat(<<0, 0>>, 0)
  /\ cfg.mode = "hex"

\* ------------------------------------------------------------------------
\* The event loop
\* ------------------------------------------------------------------------
\* Variant: a loop body that reads the transport before it fires the timers.
PhaseAfter_RxFirst(p) ==
  CASE p = "poll" -> "rx"
    [] p = "rx"   -> "fire"
    [] p = "fire" -> "kbd"
    [] p = "kbd"  -> "top"

\* The order of the blocks of the loop body after poll() returned: timer
\* fires, incoming transport data, keyboard input, back to the loop condition.
PhaseAfter(p) ==
  CASE p = "poll" -> "fire"
    [] p = "fire" -> "rx"
    [] p = "rx"   -> "kbd"
    [] p = "kbd"  -> "top"

\* The mark left in the handle set by a close of a handle that is not open.
BadClose == -2

\* close(2): an open handle is released; a negative one fails with EBADF
\* and changes nothing; a handle closed before is closed a second time.
close(fds, h) ==
  IF h < 0 THEN fds
  ELSE IF h \in fds THEN fds \ {h}
  ELSE fds \cup {BadClose}

\* The descriptors the process has open from its start: stdin, stdout, stderr.
StdFds == {0, 1, 2}

\* open(2) / socket(2), successful: the lowest-numbered descriptor that is
\* not open.
open(fds) ==
  CHOOSE n \in 0..(Cardinality(fds) + Cardinality(StdFds)) :
    /\ n \notin (fds \cup StdFds)
    /\ \A m \in 0..(n - 1) : m \in (fds \cup StdFds)

\* Variant: fd keeps the closed handle when the reconnect fails.
OpenFailed_Stale(old) == old

\* `fd = setup_can(...)` / `fd = open_serial(cfg)` returning a negative value.
OpenFailed(old) == -1

\* SIGINT: sigint_handler.  The flag is read only by the loop condition, so
\* a signal is delivered while the menu has control, while poll() is
\* pending or after it returned.
Sigint ==
  /\ pc \in {"menu", "back", "poll", "fire"}
  /\ keep_running
  /\ keep_running' = FALSE
  /\ UNCHANGED <<pc, show_menu, clock, now, timeout_ms, preset_repeats, inline_repeat,
                 cfg, append_crlf, itype, fd, revents, iter_log, last, keys_done,
                 menus, choices, need_reconnect, menu_ms, cin_failed, open_fds, scope, inline_armed, history>>

\* `while (g_keep_running)` fails: cleanup, close(fd).
LoopExit ==
  /\ pc = "top"
  /\ ~keep_running
  /\ pc' = "done"
  /\ open_fds' = close(open_fds, fd)
  /\ iter_log' = <<>>
  /\ last' = NoEvent
  /\ UNCHANGED <<keep_running, show_menu, clock, now, timeout_ms, preset_repeats,
                 inline_repeat, cfg, append_crlf, itype, fd, revents, keys_done, menus, choices, need_reconnect, menu_ms, cin_failed,
                 scope, inline_armed, history>>

\* One answer typed at the prompt of show_settings_menu, with the text
\* that goes with it: the mode for M, the identifier for C, and for P the
\* visit of show_presets_menu it starts (preset idx, action E or D, and the
\* lines typed for format, CAN id and data: empty keeps, "-" clears).
\* SIGINT is handled without SA_RESTART, so it ends a blocking call of the
\* answer: rd names the read it arrives in ("value": a scanf after the first
\* one, which then stores nothing; "name", "format", "canid", "data": that
\* getline of the edit), cut says that it arrives in the sleep(1) that ends
\* the answer.
MenuKey(k) ==
  [key |-> k, mode |-> "", can_id |-> <<>>, idx |-> 1, action |-> "Q",
   fmt |-> "", canid |-> <<>>, data |-> <<>>, rd |-> "none", cut |-> FALSE]

T_456 == <<"0", "x", "4", "5", "6">>

\* T toggles the interface type, A stands for A and B (new device or bit
\* rate), H for the answers that change nothing the loop reads (D, E, F, H
\* and unknown keys).
MenuInputs ==
  LET edit == [MenuKey("P") EXCEPT !.idx = 1, !.action = "E", !.fmt = "text",
                                   !.canid = <<"0", "x", "7">>,
                                   !.data = <<"D", "A", "T", "A">>]
      plain == { MenuKey("Q"), MenuKey("S"), MenuKey("T"), MenuKey("A"), MenuKey("L"),
                 MenuKey("H"),
                 [MenuKey("M") EXCEPT !.mode = "normal"],
                 [MenuKey("M") EXCEPT !.mode = "hex"],
                 [MenuKey("M") EXCEPT !.mode = "HEX"],
                 [MenuKey("C") EXCEPT !.can_id = T_456],
                 [MenuKey("P") EXCEPT !.idx = 1, !.action = "D"],
                 edit }
  IN plain
     \cup { [c EXCEPT !.cut = TRUE] :
              c \in {d \in plain : d.key \in {"T", "L", "S", "P"}} }
     \cup { [c EXCEPT !.rd = "value"] :
              c \in {d \in plain : d.key \in {"A", "C", "M"}} }
     \cup { [edit EXCEPT !.rd = r] : r \in {"name", "canid", "data"} }

\* show_presets_menu, action D: the preset is set back to its defaults.
ClearPreset(pr) ==
  [format |-> "hex", data |-> <<>>, can_id |-> <<"0", "x", "1", "2", "3">>]

\* show_presets_menu, action E: each line typed replaces a field, "-" puts
\* the default, an empty line keeps it; the CAN id is asked for on CAN only.
\* A getline that SIGINT interrupts returns the empty line and leaves
\* std::cin failed, so that one and every later one keeps its field.
EditPreset(pr, it, c, failed) ==
  [format |-> IF failed \/ c.rd \in {"name", "format"} THEN pr.format
              ELSE IF c.fmt = "-" THEN "hex"
              ELSE IF c.fmt # "" THEN c.fmt ELSE pr.format,
   can_id |-> IF it # "CAN" \/ failed \/ c.rd \in {"name", "format", "canid"}
              THEN pr.can_id
              ELSE IF c.canid = <<"-">> THEN <<"0", "x", "1", "2", "3">>
              ELSE IF c.canid # <<>> THEN c.canid ELSE pr.can_id,
   data   |-> IF failed \/ c.rd # "none" THEN pr.data
              ELSE IF c.data = <<"-">> THEN <<>>
              ELSE IF c.data # <<>> THEN c.data ELSE pr.data]

\* The answers after which the menu code calls sleep(1).
MenuSleeps(c) ==
  c.key \in {"T", "L", "S"} \/ (c.key = "P" /\ c.action \in {"D", "E"})

\* Variant: the reconnect opens the new handle without closing the old one.
Reopen_Leak(fds, old) == [fd |-> open(fds), fds |-> fds \cup {open(fds)}]

\* `close(fd); fd = setup_can(...)` / `fd = open_serial(cfg)`, successful:
\* the descriptor just closed is the lowest one free, so its number is
\* handed out again.
Reopen(fds, old) ==
  [fd |-> open(close(fds, old)), fds |-> close(fds, old) \cup {open(close(fds, old))}]

\* `if (g_show_menu) { g_show_menu = 0; ... show_settings_menu(...)`: the
\* menu is on the screen and waits for an answer; the operator may take
\* Stall ms before the first one.  Past MenuLimit visits only Q is answered.
Menu ==
  /\ pc = "top"
  /\ keep_running
  /\ show_menu
  /\ show_menu' = FALSE
  /\ menus' = menus + 1
  /\ choices' = IF menus < MenuLimit THEN 0 ELSE MaxChoices
  /\ need_reconnect' = FALSE
  /\ iter_log' = <<>>
  /\ last' = NoEvent
  /\ \E e \in {0, Stall} :
       /\ clock + e <= ClockLimit + menu_ms
       /\ clock' = clock + e
  /\ pc' = "menu"
  /\ UNCHANGED <<keep_running, now, timeout_ms, preset_repeats, inline_repeat, cfg,
                 append_crlf, itype, fd, revents, keys_done, open_fds, scope,
                 inline_armed, history, menu_ms, cin_failed>>

\* One pass of the `while (true)` of show_settings_menu: an answer is read
\* and the switch acts on it; Q and S return to main.  A SIGINT that arrives
\* in a read or in the sleep of the answer clears g_keep_running and ends
\* that call: the value is not stored, or sleep(1) returns after SleepCut ms.
MenuChoice ==
  /\ pc = "menu"
  /\ \E c \in MenuInputs :
       LET ms == IF ~MenuSleeps(c) THEN 0 ELSE IF c.cut THEN SleepCut ELSE SleepMs IN
       /\ (c.key # "Q") => choices < MaxChoices
       /\ (c.rd \in {"name", "format", "canid", "data"}) => ~cin_failed
       /\ (c.rd = "canid") => itype = "CAN"
       /\ choices' = IF c.key = "Q" THEN choices ELSE choices + 1
       /\ itype' = IF c.key = "T"
                   THEN (IF itype = "SERIAL" THEN "CAN" ELSE "SERIAL") ELSE itype
       /\ need_reconnect' = (need_reconnect \/ c.key = "T"
                               \/ (c.key = "A" /\ c.rd = "none"))
       /\ cfg' = CASE c.key = "M" /\ c.rd = "none" -> [cfg EXCEPT !.mode = c.mode]
                   [] c.key = "C" /\ c.rd = "none" /\ itype = "CAN" ->
                        [cfg EXCEPT !.can_id = c.can_id]
                   [] c.key = "P" /\ c.action = "D" ->
                        [cfg EXCEPT !.presets[c.idx] = ClearPreset(@)]
                   [] c.key = "P" /\ c.action = "E" ->
                        [cfg EXCEPT !.presets[c.idx] = EditPreset(@, itype, c, cin_failed)]
                   [] OTHER -> cfg
       /\ append_crlf' = IF c.key = "L" THEN ~append_crlf ELSE append_crlf
       /\ cin_failed' = (cin_failed \/ c.rd \in {"name", "format", "canid", "data"})
       /\ keep_running' = (keep_running /\ c.rd = "none" /\ ~c.cut)
       /\ clock' = clock + ms
       /\ menu_ms' = menu_ms + ms
       /\ pc' = IF c.key \in {"Q", "S"} THEN "back" ELSE "menu"
  /\ UNCHANGED <<show_menu, now, timeout_ms, preset_repeats,
                 inline_repeat, fd, revents, iter_log, last, keys_done, menus,
                 open_fds, scope, inline_armed, history>>

\* main after show_settings_menu returned: `if (need_reconnect) { close(fd);
\* fd = ...; if (fd < 0) break; sleep_for(1 s); }  continue;`
Reconnect ==
  /\ pc = "back"
  /\ need_reconnect' = FALSE
  /\ choices' = 0
  /\ IF need_reconnect
     THEN \E opened \in BOOLEAN :
            IF opened
            THEN /\ fd' = Reopen(open_fds, fd).fd
                 /\ open_fds' = Reopen(open_fds, fd).fds
                 /\ clock' = clock + SleepMs
                 /\ menu_ms' = menu_ms + SleepMs
                 /\ pc' = "top"
            ELSE /\ fd' = OpenFailed(fd)
                 /\ open_fds' = close(close(open_fds, fd), OpenFailed(fd))
                 /\ pc' = "done"
                 /\ UNCHANGED <<clock, menu_ms>>
     ELSE /\ pc' = "top"
          /\ UNCHANGED <<fd, open_fds, clock, menu_ms>>
  /\ UNCHANGED <<keep_running, show_menu, now, timeout_ms, preset_repeats,
                 inline_repeat, cfg, append_crlf, itype, revents, iter_log, last,
                 keys_done, menus, cin_failed, scope, inline_armed, history>>

\* The timeout computation: inline slot first, then the presets in index
\* order, stopping at the first preset that is already due.
InlineTimeout(inl, t, tnow) ==
  IF inl.enabled
  THEN IF inl.next_fire - tnow <= 0 THEN 0 ELSE Min(t, inl.next_fire - tnow)
  ELSE t

RECURSIVE PresetTimeout(_, _, _, _)
PresetTimeout(slots, i, t, tnow) ==
  IF i > NumPresets THEN t
  ELSE IF slots[i].enabled
  THEN IF slots[i].next_fire - tnow <= 0 THEN 0
       ELSE PresetTimeout(slots, i + 1, Min(t, slots[i].next_fire - tnow), tnow)
  ELSE PresetTimeout(slots, i + 1, t, tnow)

\* Variant: only the inline slot shortens the wait.
PollTimeout_InlineOnly(inl, slots, tnow) == InlineTimeout(inl, BaselineTimeout, tnow)

PollTimeout(inl, slots, tnow) ==
  PresetTimeout(slots, 1, InlineTimeout(inl, BaselineTimeout, tnow), tnow)

\* Variant: the loop goes on to its wait without testing g_keep_running or
\* g_show_menu.
ComputeTimeout_Unchecked ==
  /\ pc = "top"
  /\ now' = clock
  /\ timeout_ms' = PollTimeout(inline_repeat, preset_repeats, clock)
  /\ iter_log' = <<>>
  /\ last' = NoEvent
  /\ pc' = "poll"
  /\ UNCHANGED <<keep_running, show_menu, clock, preset_repeats, inline_repeat, cfg,
                 append_crlf, itype, fd, revents, keys_done, menus, choices, need_reconnect, menu_ms, cin_failed, open_fds, scope,
                 inline_armed, history>>

ComputeTimeout ==
  /\ pc = "top"
  /\ keep_running
  /\ ~show_menu
  /\ now' = clock
  /\ timeout_ms' = PollTimeout(inline_repeat, preset_repeats, clock)
  /\ iter_log' = <<>>
  /\ last' = NoEvent
  /\ pc' = "poll"
  /\ UNCHANGED <<keep_running, show_menu, clock, preset_repeats, inline_repeat, cfg,
                 append_crlf, itype, fd, revents, keys_done, menus, choices, need_reconnect, menu_ms, cin_failed, open_fds, scope, inline_armed, history>>

\* poll() returns with events or after the timeout; the process may also be
\* held up for Stall ms before it runs again.  timeout_ms is a local of the
\* loop body, initialised to 100 in every iteration.
Poll ==
  /\ pc = "poll"
  /\ \E rx \in BOOLEAN, kbd \in BOOLEAN,
        e \in {0, timeout_ms, timeout_ms + Stall} :
       /\ (e < timeout_ms) => (rx \/ kbd)
       /\ kbd => keys_done < KeyLimit
       /\ clock + e <= ClockLimit + menu_ms
       /\ clock' = clock + e
       /\ revents' = [rx |-> rx, kbd |-> kbd]
  /\ timeout_ms' = BaselineTimeout
  /\ pc' = PhaseAfter(pc)
  /\ UNCHANGED <<keep_running, show_menu, now, preset_repeats, inline_repeat,
                 cfg, append_crlf, itype, fd, iter_log, last, keys_done, menus, choices, need_reconnect, menu_ms, cin_failed,
                 open_fds, scope, inline_armed, history>>

\* Variant: an interrupted poll is taken for a failed one.
PollInterrupted_Fatal ==
  /\ pc = "poll"
  /\ pc' = "done"
  /\ last' = [NoEvent EXCEPT !.kind = "eintr"]
  /\ open_fds' = close(open_fds, fd)
  /\ UNCHANGED <<keep_running, show_menu, clock, now, timeout_ms, preset_repeats,
                 inline_repeat, cfg, append_crlf, itype, fd, revents, iter_log,
                 keys_done, menus, choices, need_reconnect, menu_ms, cin_failed, scope, inline_armed, history>>

\* `if (rv < 0) { if (errno == EINTR) continue; ... }`; last records that
\* the wait ended this way.
PollInterrupted ==
  /\ pc = "poll"
  /\ pc' = "top"
  /\ timeout_ms' = BaselineTimeout
  /\ last' = [NoEvent EXCEPT !.kind = "eintr"]
  /\ UNCHANGED <<keep_running, show_menu, clock, now, preset_repeats,
                 inline_repeat, cfg, append_crlf, itype, fd, revents, iter_log,
                 keys_done, menus, choices, need_reconnect, menu_ms, cin_failed, open_fds, scope, inline_armed, history>>

\* `perror("poll"); break;`
PollError ==
  /\ pc = "poll"
  /\ pc' = "done"
  /\ open_fds' = close(open_fds, fd)
  /\ UNCHANGED <<keep_running, show_menu, clock, now, timeout_ms, preset_repeats,
                 inline_repeat, cfg, append_crlf, itype, fd, revents, iter_log, last,
                 keys_done, menus, choices, need_reconnect, menu_ms, cin_failed, scope, inline_armed, history>>

\* ------------------------------------------------------------------------
\* Timer fires: `now = Clock::now()`, the inline slot, then presets 1..10.
\* res gives the outcome of the write of each due slot.
\* ------------------------------------------------------------------------
\* Variant: the inline slot is served whenever its deadline is reached.
InlineDue_Deadline(inl, tnow) == tnow >= inl.next_fire

InlineDue(inl, tnow) == inl.enabled /\ tnow >= inl.next_fire

PresetDue(slot, tnow) == slot.enabled /\ tnow >= slot.next_fire

\* Variant: the inline fire is built from the settings in force when it fires.
InlineSend_Current(inl, tfd, res) ==
  IF itype = "CAN" THEN
    IF inl.is_hex THEN send_can_bytes(tfd, cfg_can_id(cfg.can_id), inl.data, res)
    ELSE [ok |-> (res = "ok"),
          tx |-> <<FrameTx(tfd, cfg_can_id(cfg.can_id),
                           SubSeq(inl.text_data, 1, Min(Len(inl.text_data), CanMaxDlc)), res)>>]
  ELSE
    IF inl.is_hex THEN [ok |-> (res = "ok"), tx |-> <<BytesTx(tfd, inl.data, res)>>]
    ELSE [ok |-> (res = "ok"),
          tx |-> <<BytesTx(tfd, IF append_crlf THEN inl.text_data \o CRLF
                                ELSE inl.text_data, res)>>]

\* The send of the inline fire, by the shape recorded when it was armed.
InlineSend(inl, tfd, res) ==
  IF inl.is_can THEN
    IF inl.is_hex THEN send_can_bytes(tfd, inl.can_id, inl.data, res)
    ELSE [ok |-> (res = "ok"),
          tx |-> <<FrameTx(tfd, inl.can_id,
                           SubSeq(inl.text_data, 1, Min(Len(inl.text_data), CanMaxDlc)), res)>>]
  ELSE
    IF inl.is_hex THEN [ok |-> (res = "ok"), tx |-> <<BytesTx(tfd, inl.data, res)>>]
    ELSE [ok |-> (res = "ok"),
          tx |-> <<BytesTx(tfd, IF inl.append_crlf THEN inl.text_data \o CRLF
                                ELSE inl.text_data, res)>>]

\* Variant: a schedule that keeps its grid, next_fire += interval.
Rearm_Backlog(slot, tnow) == [slot EXCEPT !.next_fire = slot.next_fire + slot.interval_ms]

\* Variant: a slot that has fired is switched off.
Rearm_Expire(slot, tnow) ==
  [slot EXCEPT !.enabled = FALSE, !.next_fire = tnow + slot.interval_ms]

\* `next_fire = now + milliseconds(interval_ms)`
Rearm(slot, tnow) == [slot EXCEPT !.next_fire = tnow + slot.interval_ms]

FireEntry(slot, r, deadline) ==
  [ev |-> "fire", slot |-> slot, tx |-> r.tx, ok |-> r.ok, deadline |-> deadline]

InlineFires(inl, tfd, tnow, res) ==
  IF InlineDue(inl, tnow) THEN <<FireEntry(0, InlineSend(inl, tfd, res[0]), inl.next_fire)>> ELSE <<>>

RECURSIVE PresetFires(_, _, _, _, _, _, _, _)
PresetFires(slots, i, tfd, c, it, crlf, tnow, res) ==
  IF i > NumPresets THEN <<>>
  ELSE (IF PresetDue(slots[i], tnow)
        THEN <<FireEntry(i, send_preset(tfd, c, it, i, crlf, res[i]), slots[i].next_fire)>>
        ELSE <<>>)
       \o PresetFires(slots, i + 1, tfd, c, it, crlf, tnow, res)

\* Variant: the presets are served before the inline slot.
FireSequence_PresetsFirst(inl, slots, tfd, c, it, crlf, tnow, res) ==
  PresetFires(slots, 1, tfd, c, it, crlf, tnow, res) \o InlineFires(inl, tfd, tnow, res)

\* Variant: a failed inline send ends the fires of the iteration.
FireSequence_StopOnFail(inl, slots, tfd, c, it, crlf, tnow, res) ==
  LET first == InlineFires(inl, tfd, tnow, res) IN
  IF first # <<>> /\ ~first[1].ok THEN first
  ELSE first \o PresetFires(slots, 1, tfd, c, it, crlf, tnow, res)

\* The fires of one iteration, in the order the loop body performs them.
FireSequence(inl, slots, tfd, c, it, crlf, tnow, res) ==
  InlineFires(inl, tfd, tnow, res) \o PresetFires(slots, 1, tfd, c, it, crlf, tnow, res)

DueSlots(inl, slots, tnow) ==
  (IF InlineDue(inl, tnow) THEN {0} ELSE {})
  \cup {i \in 1..NumPresets : PresetDue(slots[i], tnow)}

FireDue ==
  /\ pc = "fire"
  /\ now' = clock
  /\ \E res \in [DueSlots(inline_repeat, preset_repeats, clock) -> WriteResults] :
       iter_log' = iter_log \o FireSequence(inline_repeat, preset_repeats, fd, cfg, itype,
                                            append_crlf, clock, res)
  /\ inline_repeat' = IF InlineDue(inline_repeat, clock)
                      THEN Rearm(inline_repeat, clock) ELSE inline_repeat
  /\ preset_repeats' = [i \in 1..NumPresets |->
                          IF PresetDue(preset_repeats[i], clock)
                          THEN Rearm(preset_repeats[i], clock) ELSE preset_repeats[i]]
  /\ pc' = PhaseAfter(pc)
  /\ UNCHANGED <<keep_running, show_menu, clock, timeout_ms, cfg, append_crlf, itype, fd,
                 revents, last, keys_done, menus, choices, need_reconnect, menu_ms, cin_failed, open_fds, scope, inline_armed, history>>

\* What the receive block prints for a frame or for a run of bytes.
RxEntry(is_can, id) ==
  [ev |-> "rx", slot |-> -1, tx |-> <<>>, ok |-> TRUE, deadline |-> 0,
   is_can |-> is_can, rx_id |-> IF is_can THEN id ELSE NoId,
   shown |-> IF is_can THEN RxIdText(id) ELSE <<>>]

\* What read() may return: an error, end of input, part of a frame, a
\* whole frame (or as many bytes).
ReadSizes == {-1, 0, CanFrameSize \div 2, CanFrameSize}

\* `if (n >= sizeof(frame))` on CAN, `if (n > 0)` on serial.
Displayed(is_can, n) == IF is_can THEN n >= CanFrameSize ELSE n > 0

\* `if (fds[0].revents & POLLIN)`: read once and display what was read if
\* the read returned enough; on CAN the message starts with the identifier
\* of the frame read.
TransportIn ==
  /\ pc = "rx"
  /\ \E id \in RxIds, n \in ReadSizes :
       iter_log' = IF revents.rx /\ Displayed(itype = "CAN", n)
                   THEN Append(iter_log, RxEntry(itype = "CAN", IF itype = "CAN" THEN id ELSE NoId))
                   ELSE iter_log
  /\ revents' = [revents EXCEPT !.rx = FALSE]
  /\ pc' = PhaseAfter(pc)
  /\ UNCHANGED <<keep_running, show_menu, clock, now, timeout_ms, preset_repeats,
                 inline_repeat, cfg, append_crlf, itype, fd, last, keys_done,
                 menus, choices, need_reconnect, menu_ms, cin_failed, open_fds, scope, inline_armed, history>>

\* ------------------------------------------------------------------------
\* Keyboard: rl_callback_read_char() consumes a character; it may complete
\* a line (g_line_handler), hit end of input (g_line_handler(NULL)), be
\* Ctrl-T (ctrl_t_handler), Alt+N (alt_preset_handler) or leave the line
\* unfinished.
\* ------------------------------------------------------------------------
\* History of the inline slot: the line that armed it last, what that line
\* put on the wire, and how many lines armed it so far.  A line arms the
\* slot when the handler reaches one of the places that assign
\* g_inline_repeat: an accepted /rpt command or, in hex mode, an accepted
\* data line carrying -r; the handler's result says so in `armed`, and the
\* event record of the line keeps it.
\* A transmission as seen on the wire: descriptor and outcome left out.
Wire(tx) == [kind |-> tx.kind, can_id |-> tx.can_id, dlc |-> tx.dlc, data |-> tx.data]

Captured ==
  [preset_repeats |-> preset_repeats, inline_repeat |-> inline_repeat, cfg |-> cfg,
   append_crlf |-> append_crlf, itype |-> itype, fd |-> fd, show_menu |-> show_menu,
   now |-> clock]

KbdEntry(tx) == [ev |-> "kbd", slot |-> -1, tx |-> tx, ok |-> TRUE, deadline |-> 0]

AltKeys == {1, 10}

KeyboardIdle ==
  /\ pc = "kbd"
  /\ ~revents.kbd
  /\ pc' = PhaseAfter(pc)
  /\ UNCHANGED <<keep_running, show_menu, clock, now, timeout_ms, preset_repeats,
                 inline_repeat, cfg, append_crlf, itype, fd, revents, iter_log, last,
                 keys_done, menus, choices, need_reconnect, menu_ms, cin_failed, open_fds, scope, inline_armed, history>>

KeyboardLine ==
  /\ pc = "kbd"
  /\ revents.kbd
  /\ keys_done < KeyLimit
  /\ keys_done' = keys_done + 1
  /\ \E line \in InputLines, res \in WriteResults :
     \E r \in {LineHandler(line, Captured, res)} :
       /\ (r.tx = <<>>) => (res = "ok")
       /\ preset_repeats' = r.preset_repeats
       /\ inline_repeat' = r.inline_repeat
       /\ cfg' = r.cfg
       /\ append_crlf' = r.append_crlf
       /\ show_menu' = r.show_menu
       /\ last' = [kind |-> "line", line |-> line, tx |-> r.tx, msgs |-> r.msgs,
                   armed |-> r.armed]
       /\ inline_armed' = IF r.armed
                          THEN [n |-> Min(inline_armed.n + 1, MaxKeys + 1),
                                line |-> line, tx |-> Wire(r.tx[1])]
                          ELSE inline_armed
       /\ history' = IF scope = "stop" THEN Append(history, line) ELSE history
       /\ iter_log' = Append(iter_log, KbdEntry(r.tx))
       /\ pc' = IF r.abort THEN "aborted" ELSE PhaseAfter(pc)
  /\ revents' = [rx |-> FALSE, kbd |-> FALSE]
  /\ UNCHANGED <<keep_running, clock, now, timeout_ms, itype, fd, menus, choices, need_reconnect, menu_ms, cin_failed,
                 open_fds, scope>>

KeyboardOther ==
  /\ pc = "kbd"
  /\ revents.kbd
  /\ keys_done < KeyLimit
  /\ keys_done' = keys_done + 1
  /\ \/ /\ last' = [NoEvent EXCEPT !.kind = "char"]
        /\ iter_log' = Append(iter_log, KbdEntry(<<>>))
        /\ UNCHANGED <<keep_running, show_menu>>
     \/ /\ last' = [NoEvent EXCEPT !.kind = "eof"]
        /\ iter_log' = Append(iter_log, KbdEntry(<<>>))
        /\ keep_running' = FALSE
        /\ UNCHANGED show_menu
     \/ /\ last' = [NoEvent EXCEPT !.kind = "ctrl-t"]
        /\ iter_log' = Append(iter_log, KbdEntry(<<>>))
        /\ show_menu' = TRUE
        /\ UNCHANGED keep_running
     \/ \E n \in AltKeys, res \in WriteResults :
          LET r == send_preset(fd, cfg, itype, n, append_crlf, res) IN
          /\ (r.tx = <<>>) => (res = "ok")
          /\ last' = [NoEvent EXCEPT !.kind = "alt", !.tx = r.tx,
                                     !.msgs = <<IF r.ok THEN "TX[Preset]" ELSE "TX FAILED[Preset]">>]
          /\ iter_log' = Append(iter_log, KbdEntry(r.tx))
          /\ UNCHANGED <<keep_running, show_menu>>
  /\ pc' = PhaseAfter(pc)
  /\ revents' = [rx |-> FALSE, kbd |-> FALSE]
  /\ UNCHANGED <<clock, now, timeout_ms, preset_repeats, inline_repeat, cfg, append_crlf,
                 itype, fd, menus, choices, need_reconnect, menu_ms, cin_failed, open_fds, scope, inline_armed, history>>

Next ==
  \/ Sigint
  \/ LoopExit
  \/ Menu
  \/ MenuChoice
  \/ Reconnect
  \/ ComputeTimeout
  \/ Poll
  \/ PollInterrupted
  \/ PollError
  \/ FireDue
  \/ TransportIn
  \/ KeyboardIdle
  \/ KeyboardLine
  \/ KeyboardOther

Spec == Init /\ [][Next]_vars

SpecWide == InitWide /\ [][Next]_vars

SpecStop == InitStop /\ [][Next]_vars

SpecMenu == InitMenu /\ [][Next]_vars

\* The steps the process takes by itself.  Sigint is the environment's,
\* and so is MenuChoice: show_settings_menu blocks in scanf(" %c") until the
\* operator types an answer, and stays there after SIGINT or at end of
\* input.  Everywhere else the process is sequential and does not block for
\* ever: poll() returns at the latest after its finite timeout and every
\* other step is straight-line code.
LoopStep ==
  \/ LoopExit
  \/ Menu
  \/ Reconnect
  \/ ComputeTimeout
  \/ Poll
  \/ PollInterrupted
  \/ PollError
  \/ FireDue
  \/ TransportIn
  \/ KeyboardIdle
  \/ KeyboardLine
  \/ KeyboardOther

\* The process is scheduled: a step it can take by itself is taken.  Nothing
\* is assumed about the operator at the menu prompt or about the signal.
SpecLive == InitLive /\ [][Next]_vars /\ WF_vars(LoopStep)

SpecFair == InitFair /\ [][Next]_vars /\ WF_vars(LoopStep)

\* ------------------------------------------------------------------------
\* Properties
\* ------------------------------------------------------------------------
SlotState(s) == IF s = 0 THEN inline_repeat ELSE preset_repeats[s]

LogIndices(kind) == {i \in DOMAIN iter_log : iter_log[i].ev = kind}

PhaseRank(kind) == CASE kind = "fire" -> 1 [] kind = "rx" -> 2 [] kind = "kbd" -> 3

\* C1: within one loop iteration every timer fire precedes the handling of
\* incoming transport data, which precedes the handling of keyboard input;
\* and once the fire block is over no enabled slot is still due at `now`,
\* so all due timers were served before the transport and the keyboard.
C1_IterationOrder ==
  /\ \A i, j \in DOMAIN iter_log :
        i < j => PhaseRank(iter_log[i].ev) <= PhaseRank(iter_log[j].ev)
  /\ (pc \in {"rx", "kbd"}) => DueSlots(inline_repeat, preset_repeats, now) = {}
  /\ (pc = "rx") => LogIndices("rx") = {} /\ LogIndices("kbd") = {}
  /\ (pc = "kbd") => LogIndices("kbd") = {}

\* An iteration that fired a timer, displayed transport data and dispatched
\* a typed line.
C1_Witness ==
  /\ pc = "top"
  /\ last.kind = "line"
  /\ LogIndices("fire") # {} /\ LogIndices("rx") # {} /\ LogIndices("kbd") # {}

\* C2: a late timer produces no backlog: in one iteration a slot transmits
\* at most once, however long ago its deadline passed, and after the fire
\* its next_fire is the firing instant plus its interval.
C2_NoBacklog ==
  /\ \A i, j \in LogIndices("fire") : iter_log[i].slot = iter_log[j].slot => i = j
  /\ \A i \in LogIndices("fire") : Len(iter_log[i].tx) <= 1
  /\ (pc = "rx") =>
        \A i \in LogIndices("fire") :
          LET sl == SlotState(iter_log[i].slot) IN
            /\ iter_log[i].deadline <= now
            /\ sl.next_fire = now + sl.interval_ms

\* A slot fires after its deadline was missed by a whole interval or more.
C2_Witness ==
  /\ pc = "rx"
  /\ \E i \in LogIndices("fire") :
        /\ Len(iter_log[i].tx) = 1
        /\ now >= iter_log[i].deadline + SlotState(iter_log[i].slot).interval_ms

Range(seq) == {seq[i] : i \in DOMAIN seq}

\* The typed forms `/p N -r` and `/p N -r -t MS` for preset N.
PresetArmLinesOf(n) ==
  {l \in PresetLines \cup LoopLines :
     /\ Len(l) >= 3 /\ l[1] = K_p /\ l[2] = DecDigits(n)
     /\ F_r \in Range(l) /\ F_nr \notin Range(l)}

HandledLine(lines) == last.kind = "line" /\ last.line \in lines

\* C3 as stated: handling `/p N -r [-t MS]` performs exactly one immediate
\* send of preset N.
C3_ImmediateSend ==
  \A n \in 1..NumPresets : HandledLine(PresetArmLinesOf(n)) => Len(last.tx) = 1

\* C3, amended: for every N in 1..10, handling `/p N -r [-t MS]` sends
\* nothing; it enables slot N with next_fire one interval after the instant
\* of the command, so the first transmission of preset N is a periodic fire.
C3_ArmSendsNothing ==
  \A n \in 1..NumPresets :
    HandledLine(PresetArmLinesOf(n)) =>
      /\ last.tx = <<>>
      /\ LogIndices("kbd") # {} /\ iter_log[Len(iter_log)].tx = <<>>
      /\ preset_repeats[n].enabled
      /\ preset_repeats[n].interval_ms > 0
      /\ preset_repeats[n].next_fire = clock + preset_repeats[n].interval_ms

\* `/p 1 -r` was handled for a preset that holds data.
C3_Witness ==
  /\ HandledLine({<<K_p, DecDigits(1), F_r>>})
  /\ cfg.presets[1].data # <<>>
  /\ preset_repeats[1].enabled

\* C4: handling `/p N -r [-t MS]` enables slot N and leaves every other
\* preset slot and the inline slot as they were.
C4_OnlySlotN ==
  [][\A n \in 1..NumPresets :
       (pc = "kbd" /\ last'.kind = "line" /\ last'.line \in PresetArmLinesOf(n)) =>
         /\ preset_repeats'[n].enabled
         /\ \A m \in (1..NumPresets) \ {n} : preset_repeats'[m] = preset_repeats[m]
         /\ inline_repeat' = inline_repeat]_vars

\* Preset 10 was armed while preset 2, started with --repeat, stays armed.
C4_Witness ==
  /\ HandledLine(PresetArmLinesOf(10))
  /\ preset_repeats[10].enabled
  /\ preset_repeats[2] = [enabled |-> TRUE, interval_ms |-> 5, next_fire |-> 5]

\* C5 as stated: every enabled slot has an interval of at least 10 ms,
\* whichever path armed it.
C5_IntervalFloor ==
  \A s \in Slots : SlotState(s).enabled => SlotState(s).interval_ms >= MinInterval

\* C6: a step that arms or fires a slot at instant t leaves its next_fire
\* strictly after t.
C6_NextFireAfter ==
  [][\A s \in Slots :
       ( \/ SlotState(s)'.next_fire # SlotState(s).next_fire
         \/ pc = "fire" /\ pc' # pc /\ s \in DueSlots(inline_repeat, preset_repeats, clock)
         \/ /\ pc = "kbd" /\ last'.kind = "line"
            /\ \/ s >= 1 /\ last'.line \in PresetArmLinesOf(s)
               \/ s = 0 /\ last'.armed )
       => /\ clock' = clock
          /\ SlotState(s)'.next_fire > clock]_vars

\* A slot has just fired and waits for an instant still to come.
C6_Witness ==
  /\ pc = "rx"
  /\ LogIndices("fire") # {}
  /\ \A i \in LogIndices("fire") : SlotState(iter_log[i].slot).next_fire > clock

\* C7 as stated: the slots due in one iteration fire preset 1..10 in
\* ascending order and the inline slot last.
C7_InlineLast ==
  \A i, j \in LogIndices("fire") :
    i < j => LET ki == IF iter_log[i].slot = 0 THEN NumPresets + 1 ELSE iter_log[i].slot
                 kj == IF iter_log[j].slot = 0 THEN NumPresets + 1 ELSE iter_log[j].slot
             IN ki < kj

\* C7, amended: the slots due in one iteration fire in a fixed order, the
\* inline slot first and then the presets 1..10 in ascending order.
C7_InlineFirst ==
  \A i, j \in LogIndices("fire") : i < j => iter_log[i].slot < iter_log[j].slot

\* The inline slot and a preset fired in the same iteration.
C7_Witness ==
  \E i, j \in LogIndices("fire") : iter_log[i].slot = 0 /\ iter_log[j].slot >= 1

\* A hex-mode line the grammar accepts that carries -r and a -t value of
\* eleven digits.
HexArmHugeLines == { <<H_AA, F_r, F_t, D_Huge>> }

\* C8 as stated: a valid hex-mode line with -r arms the inline slot, which
\* is then enabled with the bytes its hex tokens spell, the CAN id given by
\* -id (the configured id when -id is absent) and the interval given by -t
\* (1000 ms when -t is absent), and writes that payload exactly once, at
\* once.
C8_HexArm ==
  /\ \A f \in HexArmForms :
       (HandledLine({f.line}) /\ cfg.mode = "hex") =>
         LET id == IF f.has_id THEN f.id ELSE cfg_can_id(cfg.can_id) IN
         /\ Len(last.tx) = 1
         /\ last.tx[1].data = f.data
         /\ last.tx[1].fd = fd
         /\ (itype = "CAN") =>
               /\ last.tx[1].kind = "frame" /\ last.tx[1].can_id = id
               /\ last.tx[1].dlc = Len(f.data)
               /\ inline_repeat.is_can /\ inline_repeat.can_id = id
         /\ (itype = "SERIAL") => last.tx[1].kind = "bytes" /\ ~inline_repeat.is_can
         /\ inline_repeat.is_hex
         /\ inline_repeat.data = f.data
         /\ inline_repeat.interval_ms = f.interval_ms
         /\ inline_repeat.next_fire = clock + f.interval_ms
         /\ inline_repeat.enabled
  /\ (HandledLine(HexArmHugeLines) /\ cfg.mode = "hex") =>
       /\ pc # "aborted"
       /\ Len(last.tx) = 1
       /\ last.tx[1].data = <<170>>
       /\ inline_repeat.enabled
       /\ inline_repeat.is_hex
       /\ inline_repeat.data = <<170>>
       /\ DecDigits(inline_repeat.interval_ms) = D_Huge

ArmedInterval(line) ==
  (CHOOSE f \in HexArmForms \cup RptArmForms : f.line = line).interval_ms

\* C9: a new inline arm replaces the slot without merging: every inline
\* fire puts on the wire what the latest arming line itself transmitted
\* (same payload, same target, same framing), once, and re-arms at the
\* interval that line gave.
C9_InlineReplaced ==
  (pc = "rx") =>
    \A i \in LogIndices("fire") :
      iter_log[i].slot = 0 =>
        /\ inline_armed.n >= 1
        /\ Len(iter_log[i].tx) = 1
        /\ Wire(iter_log[i].tx[1]) = inline_armed.tx
        /\ inline_repeat.interval_ms = ArmedInterval(inline_armed.line)
        /\ inline_repeat.next_fire = now + ArmedInterval(inline_armed.line)

\* The inline slot fires a hex payload armed over an earlier /rpt text,
\* whose text is still stored in the slot.
C9_Witness ==
  /\ pc = "rx"
  /\ \E i \in LogIndices("fire") : iter_log[i].slot = 0
  /\ inline_armed.n >= 2
  /\ inline_armed.line \in HexArmLines
  /\ inline_repeat.text_data # <<>>

\* The lines of the alphabet that violate the hex-mode grammar: those of
\* HexBadLines and those with a second fault or with the flags in another
\* place.
HexViolatingLines ==
  HexBadLines \cup
  { <<F_t, DecDigits(5), H_AA, F_r>>,
    <<<<"G", "G">>, F_t, D_Huge>>,
    <<F_t, D_Huge, <<"G", "G">>>>,
    <<H_AA, F_t, D_Huge, F_id>> }

\* C10 as stated: every hex-mode line that violates the grammar is rejected
\* as a whole: no write, no slot changed, exactly one diagnostic, and the
\* loop goes on.
C10_BadHexLineRejected ==
  [][(/\ pc = "kbd" /\ cfg.mode = "hex"
      /\ last'.kind = "line" /\ last'.line \in HexViolatingLines) =>
       /\ last'.tx = <<>>
       /\ iter_log' = Append(iter_log, KbdEntry(<<>>))
       /\ preset_repeats' = preset_repeats
       /\ inline_repeat' = inline_repeat
       /\ Len(last'.msgs) = 1
       /\ pc' = "top"
       /\ keep_running' = keep_running]_vars

\* C11: on CAN in hex mode a line of more than 8 bytes is rejected, with
\* or without -r: no write, one diagnostic, no slot armed or modified.
C11_CanLongLineRejected ==
  [][(/\ pc = "kbd" /\ cfg.mode = "hex" /\ itype = "CAN"
      /\ last'.kind = "line" /\ last'.line \in HexLongLines) =>
       /\ last'.tx = <<>>
       /\ iter_log' = Append(iter_log, KbdEntry(<<>>))
       /\ Len(last'.msgs) = 1
       /\ inline_repeat' = inline_repeat
       /\ preset_repeats' = preset_repeats
       /\ pc' = "top"]_vars

\* `AA BB CC DD EE FF 00 11 22 -r -t 50` was typed on CAN in hex mode.
C11_Witness ==
  /\ HandledLine({H_9T \o <<F_r, F_t, DecDigits(50)>>})
  /\ cfg.mode = "hex" /\ itype = "CAN"
  /\ ~inline_repeat.enabled

\* C12 as stated: on CAN no path writes a frame for a payload longer than
\* 8 bytes; the payload is rejected before the write.
C12_NoTruncatedFrame ==
  (HandledLine(CanLongCommandLines) /\ itype = "CAN") => last.tx = <<>>

\* C13 as stated: `/rpt MS text` with MS below 10 sends nothing and leaves
\* the inline slot as it was; with MS >= 10 and a text it arms the inline
\* slot, which is then enabled with the text and the interval MS, due one
\* interval later, and writes the text once at once (with the line ending
\* on serial, as one frame on CAN).
C13_Rpt ==
  [][(pc = "kbd" /\ last'.kind = "line") =>
       /\ (last'.line \in RptBadLines) =>
             /\ last'.tx = <<>>
             /\ Len(last'.msgs) = 1
             /\ inline_repeat' = inline_repeat
             /\ preset_repeats' = preset_repeats
       /\ \A f \in RptArmForms :
             (last'.line = f.line) =>
               /\ Len(last'.tx) = 1
               /\ last'.tx[1].fd = fd
               /\ IF itype = "CAN"
                  THEN /\ last'.tx[1].kind = "frame"
                       /\ last'.tx[1].data = f.text
                       /\ last'.tx[1].can_id = cfg_can_id(cfg.can_id)
                       /\ inline_repeat'.is_can
                       /\ inline_repeat'.can_id = cfg_can_id(cfg.can_id)
                  ELSE /\ last'.tx[1].kind = "bytes"
                       /\ last'.tx[1].data = IF append_crlf THEN f.text \o CRLF ELSE f.text
                       /\ ~inline_repeat'.is_can
                       /\ inline_repeat'.append_crlf = append_crlf
               /\ ~inline_repeat'.is_hex
               /\ inline_repeat'.text_data = f.text
               /\ inline_repeat'.interval_ms = f.interval_ms
               /\ inline_repeat'.next_fire = clock + f.interval_ms
               /\ inline_repeat'.enabled
               /\ preset_repeats' = preset_repeats
       /\ (last'.line = <<K_rpt, D_Huge, T_hello>>) =>
             /\ pc' = "top"
             /\ Len(last'.tx) = 1
             /\ inline_repeat'.enabled
             /\ inline_repeat'.text_data = T_hello
             /\ DecDigits(inline_repeat'.interval_ms) = D_Huge]_vars

\* The typed characters of a line whose tokens are one space apart.
Typed(line) == Join(line)

\* C14 as stated: in text mode a line that does not start with '/' is
\* written once, character for character, flags included (followed by the
\* line ending on serial, as one frame on CAN), and no slot is armed,
\* disarmed or modified.
C14_TextVerbatim ==
  [][(/\ pc = "kbd" /\ cfg.mode # "hex"
      /\ last'.kind = "line" /\ last'.line \in HexLines \cup TextLines) =>
       /\ Len(last'.tx) = 1
       /\ last'.tx[1].fd = fd
       /\ IF itype = "CAN"
          THEN last'.tx[1].kind = "frame" /\ last'.tx[1].data = Typed(last'.line)
          ELSE /\ last'.tx[1].kind = "bytes"
               /\ last'.tx[1].data = IF append_crlf THEN Typed(last'.line) \o CRLF
                                      ELSE Typed(last'.line)
       /\ inline_repeat' = inline_repeat
       /\ preset_repeats' = preset_repeats
       /\ inline_armed' = inline_armed]_vars

\* C15 as stated: in text mode the line `hello -r -t 500`, written without
\* error, starts an inline repeat of `hello` every 500 ms.
C15_TextInlineRepeat ==
  (/\ HandledLine({<<T_hello, F_r, F_t, DecDigits(500)>>})
   /\ cfg.mode = "normal"
   /\ \A i \in DOMAIN last.tx : last.tx[i].res = "ok") =>
    /\ inline_repeat.enabled
    /\ inline_repeat.text_data = T_hello
    /\ inline_repeat.interval_ms = 500

K_ra == <<<<"/", "r", "a">>>>

AllDisabled == \A s \in Slots : ~SlotState(s).enabled

\* C16: handling `/ra` sends nothing and leaves all 10 preset slots and the
\* inline slot disabled; while every slot is disabled the wait is computed
\* as the baseline timeout and the fire block transmits nothing; and a
\* disabled slot becomes enabled only by a line that arms it.
C16_StopAll ==
  [][/\ (pc = "kbd" /\ last'.kind = "line" /\ last'.line = K_ra) =>
          /\ last'.tx = <<>>
          /\ \A s \in Slots : ~SlotState(s)'.enabled
     /\ (AllDisabled /\ pc = "top" /\ pc' = "poll") => timeout_ms' = BaselineTimeout
     /\ (AllDisabled /\ pc = "fire" /\ pc' # pc) =>
          /\ iter_log' = iter_log
          /\ inline_repeat' = inline_repeat /\ preset_repeats' = preset_repeats
     /\ \A s \in Slots :
          (~SlotState(s).enabled /\ SlotState(s)'.enabled) =>
            /\ pc = "kbd" /\ last'.kind = "line"
            /\ \/ s >= 1 /\ last'.line \in PresetArmLinesOf(s)
               \/ s = 0 /\ last'.armed]_vars

\* `/ra` was handled after preset 1 had been armed, and the inline slot and
\* every preset are disabled.
C16_Witness ==
  /\ HandledLine({K_ra})
  /\ preset_repeats[1].next_fire > 0
  /\ AllDisabled

\* The stop line of a slot: `/rs stop` for the inline slot, `/p N -nr` for
\* preset N.
StopLineOf(s) ==
  IF s = 0 THEN <<<<"/", "r", "s">>, <<"s", "t", "o", "p">>>>
           ELSE <<K_p, DecDigits(s), F_nr>>

\* C17: handling the stop line of a slot sends nothing, leaves every other
\* slot as it was, and changes of the named slot only the enabled flag, which
\* becomes false; on a slot that is already disabled (as after a first stop)
\* it therefore changes nothing, so stopping twice equals stopping once.
C17_StopIdempotent ==
  [][\A s \in Slots :
       (pc = "kbd" /\ last'.kind = "line" /\ last'.line = StopLineOf(s)) =>
         /\ last'.tx = <<>>
         /\ \A t \in Slots \ {s} : SlotState(t)' = SlotState(t)
         /\ SlotState(s)' = [SlotState(s) EXCEPT !.enabled = FALSE]
         /\ ~SlotState(s).enabled => SlotState(s)' = SlotState(s)]_vars

\* Preset 1 was armed, stopped, and stopped a second time.
C17_Witness ==
  /\ history = << <<K_p, DecDigits(1), F_r, F_t, DecDigits(50)>>,
                  StopLineOf(1), StopLineOf(1) >>
  /\ HandledLine({StopLineOf(1)})
  /\ ~preset_repeats[1].enabled
  /\ preset_repeats[1].interval_ms = 50

\* The loop has control: the process is not inside show_settings_menu.
Running == pc # "menu"

\* C18: once the termination flag is set while the loop is Running, the
\* loop reaches Terminated; until then only the iteration in progress runs
\* on (no new iteration and no new wait is started, the menu is not entered,
\* and a fire that is due in that iteration is still sent in full), the
\* transport handle is closed when Terminated is reached, and no step is
\* taken from Terminated.  A flag set while the menu waits for an answer
\* is tested when the menu has returned.
C18_Termination ==
  /\ [][/\ ~keep_running => ~(pc = "top" /\ pc' \in {"top", "poll", "menu"})
        /\ (~keep_running /\ pc = "fire" /\ pc' # pc) =>
             \A s \in Slots :
               (SlotState(s).enabled /\ clock >= SlotState(s).next_fire) =>
                 \E i \in DOMAIN iter_log' :
                   iter_log'[i].ev = "fire" /\ iter_log'[i].slot = s
        /\ pc' = "done" => fd' \notin open_fds'
        /\ pc # "done"]_vars
  /\ ((~keep_running /\ Running) ~> pc = "done")

\* The flag was set while the loop was running (the menu was never
\* entered); the loop left through its test of the flag and closed the
\* handle it was using.
C18_Witness ==
  /\ pc = "done" /\ ~keep_running /\ menus = 0
  /\ fd >= 0 /\ fd \notin open_fds
  /\ last = NoEvent /\ timeout_ms = BaselineTimeout

\* The transmissions of the current iteration.
IterTx == UNION {Range(iter_log[i].tx) : i \in DOMAIN iter_log}

\* C19: an answer that changes the interface type asks for a reconnect; when
\* the menu has returned with that request the handle in use is closed; if
\* no new handle can be opened the loop is Terminated with no handle and
\* takes no further step; otherwise the loop goes on at its top with the new
\* handle as the only open one.  The handle changes in no other step, and
\* every transmission is written to the handle current at that time.
C19_Reconnect ==
  [][/\ itype' # itype => (pc = "menu" /\ need_reconnect')
     /\ (pc = "back" /\ need_reconnect /\ pc' # pc) =>
          /\ iter_log' = <<>> /\ last' = NoEvent
          /\ inline_repeat' = inline_repeat /\ preset_repeats' = preset_repeats
          /\ \/ pc' = "done" /\ fd' = -1 /\ open_fds' = {}
             \/ pc' = "top" /\ fd' >= 0 /\ open_fds' = {fd'}
     /\ (fd' # fd \/ (open_fds' # open_fds /\ pc' # "done")) =>
          (pc = "back" /\ need_reconnect)
     /\ pc' # "done" => fd' \in open_fds'
     /\ \A i \in DOMAIN iter_log' :
          \A k \in DOMAIN iter_log'[i].tx : iter_log'[i].tx[k].fd = fd'
     /\ pc # "done"]_vars

\* The interface type was switched in the menu while the inline repeat was
\* running, the reconnect succeeded, and the repeat has fired on the handle
\* the reconnect returned.
C19_Witness ==
  /\ menus = 1 /\ fd >= 0 /\ open_fds = {fd}
  /\ inline_repeat.enabled /\ inline_repeat.is_can # (itype = "CAN")
  /\ \E i \in DOMAIN iter_log :
       /\ iter_log[i].ev = "fire" /\ iter_log[i].tx # <<>>
       /\ \A k \in DOMAIN iter_log[i].tx : iter_log[i].tx[k].fd = fd

\* C20: while the loop is to go on, a menu request is pending only at its
\* top, and the step taken there hands control to the menu.  While the menu
\* has control no timer fires, nothing is read or sent, no input is
\* dispatched and no repeat slot changes, whatever time passes; when the
\* menu has returned without a reconnect request the loop is at its top
\* again with the same open handle and interface type.
C20_MenuSuspends ==
  [][/\ (show_menu' /\ keep_running') => pc' = "top"
     /\ (pc = "top" /\ show_menu /\ keep_running) => (pc' = "menu" /\ ~show_menu')
     /\ (pc' \in {"menu", "back"} \/ pc \in {"menu", "back"}) =>
          /\ iter_log' = <<>> /\ last' = NoEvent
          /\ inline_repeat' = inline_repeat /\ preset_repeats' = preset_repeats
          /\ keys_done' = keys_done
          /\ pc' \in {"menu", "back", "top", "done"}
     /\ (pc = "back" /\ ~need_reconnect /\ pc' # pc) =>
          /\ pc' = "top"
          /\ fd' = fd /\ open_fds' = open_fds /\ itype' = itype
          /\ clock' = clock]_vars

\* The menu returned without a reconnect after the deadline of an armed
\* repeat had passed; the repeat has not fired.
C20_Witness ==
  /\ pc = "top" /\ menus = 1 /\ ~show_menu /\ keep_running
  /\ fd = 3 /\ open_fds = {3} /\ menu_ms = 0
  /\ iter_log = <<>>
  /\ clock > now
  /\ \E s \in Slots : SlotState(s).enabled /\ clock >= SlotState(s).next_fire

\* C21: in the fire phase every due slot, whether its send succeeds or
\* fails, is sent exactly once, stays enabled and is re-armed to
\* now + interval_ms; a failure of one slot keeps no other due slot from
\* firing, and the loop goes on to its next phase.
C21_FailedFireRecovered ==
  [][(pc = "fire" /\ pc' # pc) =>
       /\ pc' = "rx" /\ keep_running' = keep_running
       /\ \A s \in Slots :
            IF SlotState(s).enabled /\ clock >= SlotState(s).next_fire
            THEN /\ Cardinality({i \in DOMAIN iter_log' :
                                   iter_log'[i].ev = "fire" /\ iter_log'[i].slot = s}) = 1
                 /\ SlotState(s)' = [SlotState(s) EXCEPT
                                       !.next_fire = clock + SlotState(s).interval_ms]
            ELSE SlotState(s)' = SlotState(s)]_vars

\* The inline send failed on a write that went out, and a preset due in the
\* same iteration was sent after it; both slots are armed for the next round.
C21_Witness ==
  /\ pc = "rx" /\ keep_running
  /\ Len(iter_log) = 2
  /\ iter_log[1].ev = "fire" /\ iter_log[1].slot = 0
  /\ ~iter_log[1].ok /\ iter_log[1].tx # <<>>
  /\ iter_log[2].ev = "fire" /\ iter_log[2].slot >= 1 /\ iter_log[2].ok
  /\ inline_repeat.enabled /\ inline_repeat.next_fire = clock + inline_repeat.interval_ms

\* The messages that report a send as failed.
FailureMsgs == {"Write error", "Failed", "Preset failed", "TX FAILED[Preset]"}

\* C22 as stated: whenever the handling of a typed line performed a write
\* that returned fewer bytes than requested, the user is told that the send
\* failed.
C22_ShortWriteReported ==
  (last.kind = "line" /\ \E i \in DOMAIN last.tx : last.tx[i].res = "short")
    => Range(last.msgs) \cap FailureMsgs # {}

\* Lines whose command name is none the handler knows.
UnknownCommandLines == { <<<<"/", "b", "o", "g", "u", "s">>>>, <<<<"/", "A", "A">>, H_BB, F_r>> }

\* C23: in either mode a line that starts with '/' is dispatched as a
\* command: what it does is what the command dispatch does, its characters
\* are never the payload of a transmission, and when the name is unknown the
\* handler prints the unknown-command message, sends nothing and leaves the
\* slots and the configuration alone.
C23_SlashIsCommand ==
  [][(/\ pc = "kbd" /\ last'.kind = "line"
      /\ Head(last'.line) # <<>> /\ Head(last'.line)[1] = "/") =>
       /\ \E res \in WriteResults :
            LET r == SlashCommand(last'.line, Captured, res) IN
            /\ last'.tx = r.tx /\ last'.msgs = r.msgs
            /\ inline_repeat' = r.inline_repeat /\ preset_repeats' = r.preset_repeats
       /\ \A i \in DOMAIN last'.tx :
            last'.tx[i].data \notin {Typed(last'.line), Typed(last'.line) \o CRLF}
       /\ last'.line \in UnknownCommandLines =>
            /\ last'.msgs = <<"Unknown command. Type /help">>
            /\ last'.tx = <<>>
            /\ inline_repeat' = inline_repeat /\ preset_repeats' = preset_repeats
            /\ cfg' = cfg]_vars

\* `/AA BB -r` was typed in hex mode, and `/bogus` in text mode.
C23_Witness ==
  /\ last.kind = "line" /\ last.tx = <<>>
  /\ last.msgs = <<"Unknown command. Type /help">>
  /\ \/ last.line = <<<<"/", "A", "A">>, H_BB, F_r>> /\ cfg.mode = "hex"
     \/ last.line = <<<<"/", "b", "o", "g", "u", "s">>>> /\ cfg.mode = "normal"

\* A token made of `0x`, in either letter case, and one or more hex digits.
IsIdToken(t) ==
  /\ Len(t) >= 3
  /\ to_lower(SubSeq(t, 1, 2)) = <<"0", "x">>
  /\ \A i \in 3..Len(t) : isxdigit(t[i])

\* The line has a token -id, in any letter case, that is the last token or
\* is followed by a token that is no id token.
IdArgMissing(line) ==
  \E i \in DOMAIN line :
    /\ to_lower(line[i]) = F_id
    /\ (i = Len(line) \/ ~IsIdToken(line[i + 1]))

\* C24 as stated: in hex mode a line with -id (in any letter case) that is
\* not followed by a token made of `0x` and one or more hex digits is
\* rejected, wherever -id stands and whatever else the line holds: the
\* handler returns with a parse error and nothing is sent.
C24_IdNeedsArg ==
  [][(/\ pc = "kbd" /\ cfg.mode = "hex" /\ last'.kind = "line"
      /\ last'.line \in HexLines
      /\ IdArgMissing(last'.line)) =>
       /\ last'.tx = <<>>
       /\ last'.msgs # <<>>
       /\ pc' = "top"]_vars

\* Lines whose interval is an all-digit token beyond INT_MAX.
HugeIntervalLines == { <<H_AA, F_r, F_t, D_Huge>>, <<K_rpt, D_Huge, T_hello>> }

\* C25 as stated: an interval of any magnitude that is a decimal integer of
\* at least 10 is accepted with exactly that interval, and the event loop
\* keeps running.
C25_AnyMagnitude ==
  (/\ HandledLine(HugeIntervalLines)
   /\ Head(last.line) = K_rpt \/ cfg.mode = "hex") =>
    /\ pc \notin {"aborted", "done"}
    /\ inline_repeat.interval_ms > IntMax

\* The characters of a line without its white space.
RECURSIVE Digits(_)
Digits(line) == IF line = <<>> THEN <<>> ELSE Head(line) \o Digits(Tail(line))

\* The value of a hex digit, and the bytes of a digit string paired left to
\* right.
NibbleOf(c) ==
  CASE c \in {"a", "A"} -> 10 [] c \in {"b", "B"} -> 11 [] c \in {"c", "C"} -> 12
    [] c \in {"d", "D"} -> 13 [] c \in {"e", "E"} -> 14 [] c \in {"f", "F"} -> 15
    [] OTHER -> DigitVal(c)

Paired(d) == [k \in 1..(Len(d) \div 2) |-> 16 * NibbleOf(d[2 * k - 1]) + NibbleOf(d[2 * k])]

\* C26: in hex mode a valid line without flags is written once, and its
\* bytes are the hex digits of the line paired left to right, wherever the
\* white space stands (on CAN for lines of at most 8 bytes, as one frame with
\* the configured id; on serial as the bytes alone).
C26_PairedDigits ==
  [][(/\ pc = "kbd" /\ cfg.mode = "hex"
      /\ last'.kind = "line" /\ last'.line \in HexPlainLines
      /\ (itype = "SERIAL" \/ Len(Digits(last'.line)) <= 2 * CanMaxDlc)) =>
       /\ Len(last'.tx) = 1
       /\ last'.tx[1].data = Paired(Digits(last'.line))
       /\ last'.tx[1].kind = IF itype = "CAN" THEN "frame" ELSE "bytes"
       /\ itype = "CAN" => last'.tx[1].dlc = Len(Digits(last'.line)) \div 2]_vars

\* `4 1a B` was sent as the two bytes 41 AB.
C26_Witness ==
  /\ HandledLine({<<H_4, <<"1", "a">>, <<"B">>>>})
  /\ cfg.mode = "hex"
  /\ Len(last.tx) = 1 /\ last.tx[1].data = <<65, 171>>

\* What the hex-mode parse of a line comes to: the exception, a rejection,
\* or the bytes, target, repeat flag and interval.
ParseOutcome(line) ==
  LET st     == ParseHexLine(line)
      parsed == parse_hex_bytes(Join(st.hex_tokens))
  IN IF st.abort THEN [kind |-> "aborted"]
     ELSE IF st.parse_error # "" \/ ~parsed.ok \/ parsed.out = <<>> THEN [kind |-> "rejected"]
     ELSE [kind |-> "accepted", data |-> parsed.out, has_id |-> st.has_inline_id,
           id |-> st.inline_can_id, repeat |-> st.start_inline_repeat,
           interval_ms |-> st.inline_interval_ms]

\* C27 as stated: when a line of a family has been handled in hex mode, its
\* outcome is the one the parse gives (the handler returned unless the parse
\* threw), and every other line of the family parses to the same outcome.
C27_OrderIndependent ==
  \A F \in HexPermFamilies :
    (HandledLine(F) /\ cfg.mode = "hex") =>
      /\ (pc = "aborted") <=> (ParseOutcome(last.line).kind = "aborted")
      /\ ParseOutcome(last.line).kind = "rejected" => last.tx = <<>>
      /\ \A l2 \in F : ParseOutcome(l2) = ParseOutcome(last.line)

\* C28 as stated: whatever happened before, handling `/p N -r` without -t
\* leaves preset N repeating at the default interval of 1000 ms.
C28_DefaultInterval ==
  \A n \in 1..NumPresets :
    HandledLine({<<K_p, DecDigits(n), F_r>>}) =>
      /\ preset_repeats[n].enabled
      /\ preset_repeats[n].interval_ms = DefaultInterval

\* C29 as stated: every CAN frame written while handling a line carries an
\* identifier below 2^29, i.e. none of the three flag bits of can_id is set.
C29_IdBitsOnly ==
  \A i \in DOMAIN last.tx :
    last.tx[i].kind = "frame" => last.tx[i].can_id.hi < Half \div 8

\* The time left to the deadline of each enabled slot, not below zero.
Remaining(t) ==
  { IF SlotState(s).next_fire > t THEN SlotState(s).next_fire - t ELSE 0 :
      s \in {x \in Slots : SlotState(x).enabled} }

\* C30: the timeout handed to each wait is computed from the slot state of
\* that moment: 100 ms when no slot is enabled, otherwise the smallest time
\* left to the deadline of an enabled slot, taken as 0 when the deadline has
\* passed and as 100 when it is further away; it lies between 0 and 100.
C30_Timeout ==
  [][(pc = "top" /\ pc' = "poll") =>
       /\ timeout_ms' >= 0 /\ timeout_ms' <= BaselineTimeout
       /\ \A r \in Remaining(clock) : timeout_ms' <= r
       /\ timeout_ms' \in Remaining(clock) \cup {BaselineTimeout}
       /\ Remaining(clock) = {} => timeout_ms' = BaselineTimeout
       /\ 0 \in Remaining(clock) => timeout_ms' = 0]_vars

\* Two slots are armed with different deadlines and the wait is set to the
\* time left to the nearer one.
C30_Witness ==
  /\ pc = "poll"
  /\ timeout_ms > 0 /\ timeout_ms < BaselineTimeout
  /\ Cardinality(Remaining(now)) >= 2
  /\ timeout_ms \in Remaining(now)
  /\ \A r \in Remaining(now) : timeout_ms <= r

\* C31: a wait that a signal interrupts ends the iteration on the spot: the
\* loop is back at its top with the same handle open, no time has passed,
\* nothing was fired, read or dispatched and no slot or setting changed; from
\* there the loop starts its next iteration (or serves a pending menu
\* request), and leaves only when the termination flag has been cleared.
C31_InterruptedWait ==
  [][/\ (pc = "poll" /\ last'.kind = "eintr") =>
          /\ pc' = "top" /\ iter_log' = <<>> /\ iter_log = <<>>
          /\ clock' = clock /\ keys_done' = keys_done
          /\ inline_repeat' = inline_repeat /\ preset_repeats' = preset_repeats
          /\ cfg' = cfg /\ itype' = itype /\ fd' = fd /\ open_fds' = open_fds
          /\ keep_running' = keep_running /\ show_menu' = show_menu
     /\ (pc = "top" /\ last.kind = "eintr") =>
          IF keep_running
          THEN pc' = "poll" \/ show_menu
          ELSE pc' = "done"]_vars

\* A wait was interrupted while a repeat was armed and due; the loop is at
\* its top, still running, and the repeat has not fired.
C31_Witness ==
  /\ pc = "top" /\ last.kind = "eintr" /\ keep_running
  /\ \E s \in Slots : SlotState(s).enabled /\ clock >= SlotState(s).next_fire

\* The line handled last was an inline arm whose immediate write failed
\* with an error.
ArmFailed ==
  /\ last.kind = "line"
  /\ Len(last.tx) = 1 /\ last.tx[1].res = "err"
  /\ last.armed

\* C32 as stated: after an inline arm whose immediate send failed with a
\* write error the inline slot is enabled with next_fire = now + interval_ms.
C32_StaysEnabled ==
  ArmFailed => /\ inline_repeat.enabled
               /\ inline_repeat.next_fire = clock + inline_repeat.interval_ms

\* C32, amended: an inline arm whose immediate send fails with a write error
\* reports `Write error` and leaves the inline slot disabled (a repeat that
\* ran before the line is stopped by it); interval and deadline of the
\* failed arm are stored, and the slot is not served by the fire phase until
\* it is armed again.
C32_ArmFailureDisables ==
  [][/\ ArmFailed' =>
          /\ ~inline_repeat'.enabled
          /\ last'.msgs = <<"Write error">>
          /\ inline_repeat'.next_fire = clock' + inline_repeat'.interval_ms
     /\ \A i \in DOMAIN iter_log' \ DOMAIN iter_log :
          (iter_log'[i].ev = "fire" /\ iter_log'[i].slot = 0) => inline_repeat.enabled
     /\ (~inline_repeat.enabled /\ inline_repeat'.enabled) =>
          /\ last'.kind = "line" /\ last'.armed
          /\ Len(last'.tx) = 1 /\ last'.tx[1].res # "err"]_vars

\* The second arm of a run failed: the repeat started by the first one is
\* off.
C32_Witness ==
  /\ ArmFailed /\ inline_armed.n = 2 /\ ~inline_repeat.enabled
  /\ \E i \in DOMAIN iter_log : iter_log[i].ev = "fire" /\ iter_log[i].slot = 0

\* The line handled last is a stop command for slot s or `/ra`.
StoppedByCommand(s) == last.kind = "line" /\ last.line \in {StopLineOf(s), K_ra}

\* C33 as stated: an enabled slot becomes disabled only through a stop
\* command for it or `/ra`.
C33_OnlyStopDisables ==
  [][\A s \in Slots :
       (SlotState(s).enabled /\ ~SlotState(s)'.enabled) => StoppedByCommand(s)']_vars

\* C33, amended: outside the keyboard phase (wait, timer fires with any
\* write outcome, transport receive, menu visit with or without reconnect)
\* no slot's enabled flag or interval changes; an enabled slot becomes
\* disabled only by its stop command, by `/ra`, or, for the inline slot, by a
\* new inline arm whose immediate write fails with an error.
C33_NoAutoExpire ==
  [][\A s \in Slots :
       /\ (pc # "kbd") =>
            /\ SlotState(s)'.enabled = SlotState(s).enabled
            /\ SlotState(s)'.interval_ms = SlotState(s).interval_ms
       /\ (SlotState(s).enabled /\ ~SlotState(s)'.enabled) =>
            \/ StoppedByCommand(s)'
            \/ s = 0 /\ ArmFailed']_vars

\* The inline repeat is still enabled, with the interval of the line that
\* armed it, after a menu visit that changed the interface type and
\* reconnected, and after a fire that failed and a transport receive in the
\* iteration that followed.
C33_Witness ==
  /\ menus = 1 /\ pc = "kbd"
  /\ inline_repeat.enabled
  /\ inline_repeat.is_can # (itype = "CAN")
  /\ inline_repeat.interval_ms = ArmedInterval(inline_armed.line)
  /\ \E i, j \in DOMAIN iter_log :
       /\ iter_log[i].ev = "fire" /\ iter_log[i].slot = 0 /\ ~iter_log[i].ok
       /\ iter_log[j].ev = "rx"

RECURSIVE LogTx(_)
LogTx(log) == IF log = <<>> THEN <<>> ELSE Head(log).tx \o LogTx(Tail(log))

\* Every write of the current iteration, by a fire or by a line, in order.
Written == LogTx(iter_log) \o last.tx

\* The CAN frames among them.
FramesWritten == {i \in DOMAIN Written : Written[i].kind = "frame"}

\* C34: every CAN frame handed to the transport, by a typed line, a command,
\* a preset or a periodic fire, has a data length of 0..8 that is the number
\* of data bytes it carries.
C34_DlcInRange ==
  \A i \in FramesWritten :
    Written[i].dlc \in 0..CanMaxDlc /\ Written[i].dlc = Len(Written[i].data)

\* A frame of 8 bytes went out for a payload that was longer.
C34_Witness ==
  /\ last.kind = "line" /\ last.line \in CanLongCommandLines \cup TextLines
  /\ \E i \in FramesWritten : Written[i].dlc = CanMaxDlc

\* The value an identifier text stands for when read as 0x and hex digits.
ShownValue(text) == stoul16(text).val

\* C35 as stated: every CAN identifier shown, in the status line of a
\* transmitted frame and in the display of a received frame, is 0x followed
\* by the hexadecimal representation of the identifier.
C35_IdShownInHex ==
  /\ \A i \in FramesWritten :
       ShownValue(TxIdText(Written[i].can_id)) = Written[i].can_id
  /\ \A i \in LogIndices("rx") :
       iter_log[i].is_can => ShownValue(iter_log[i].shown) = iter_log[i].rx_id

\* C36 as stated: the format of every write matches the type of the open
\* transport: a CAN frame is written only while the interface is CAN, a raw
\* byte or text string only while it is Serial.
C36_FormatMatchesTransport ==
  \A i \in DOMAIN Written : (Written[i].kind = "frame") <=> (itype = "CAN")

\* The fire entries of slot s in an iteration log.
FiresOf(log, s) == {i \in DOMAIN log : log[i].ev = "fire" /\ log[i].slot = s}

\* The handled line ev armed slot s.
ArmsSlot(ev, s) ==
  IF s = 0 THEN ev.armed ELSE ev.line \in PresetArmLinesOf(s)

\* C37: a handled stop command (`/p N -nr`, `/rs stop`, `/ra`) leaves its
\* slot disabled; the fire phase serves a slot only while it is enabled, and
\* a disabled slot becomes enabled only through a line that arms it, so a
\* stopped slot does not transmit until it is armed again.  A slot that was
\* due in the wakeup in which the stop is handled has fired exactly once in
\* that wakeup, before the command: its one fire entry precedes the entry of
\* the command, which adds no transmission.
C37_StoppedStaysSilent ==
  [][\A s \in Slots :
       /\ (pc = "kbd" /\ last'.kind = "line" /\ last'.line \in {StopLineOf(s), K_ra}) =>
            /\ ~SlotState(s)'.enabled
            /\ iter_log' = Append(iter_log, KbdEntry(<<>>))
            /\ Cardinality(FiresOf(iter_log', s)) <= 1
            /\ \A i \in FiresOf(iter_log', s) : i < Len(iter_log')
       /\ (pc = "fire" /\ pc' # pc) =>
            Cardinality(FiresOf(iter_log', s)) =
              IF SlotState(s).enabled /\ clock >= SlotState(s).next_fire THEN 1 ELSE 0
       /\ (pc # "fire" \/ pc' = pc) => FiresOf(iter_log', s) \subseteq FiresOf(iter_log, s)
       /\ (~SlotState(s).enabled /\ SlotState(s)'.enabled) =>
            /\ pc = "kbd" /\ last'.kind = "line"
            /\ ArmsSlot(last', s)]_vars

\* A repeat fired in the wakeup in which its stop command was handled; the
\* fire went out first, and the slot is now disabled.
C37_Witness ==
  \E s \in Slots :
    /\ pc = "top" /\ last.kind = "line" /\ last.line \in {StopLineOf(s), K_ra}
    /\ ~SlotState(s).enabled
    /\ Cardinality(FiresOf(iter_log, s)) = 1
    /\ iter_log[Len(iter_log)].ev = "kbd"

\* C38: no handle is closed twice; at Terminated every handle that was
\* opened has been closed; while the loop body can send or read, fd is the
\* one open handle, and every write of the iteration went to it; the invalid
\* handle of a failed reconnect exists only at Terminated, where nothing is
\* sent or read any more.
C38_HandleLifecycle ==
  /\ BadClose \notin open_fds
  /\ pc = "done" => open_fds = {}
  /\ pc \in {"poll", "fire", "rx", "kbd"} => fd >= 0 /\ open_fds = {fd}
  /\ \A i \in DOMAIN Written : Written[i].fd = fd /\ Written[i].fd \in open_fds
  /\ fd < 0 => pc = "done" /\ iter_log = <<>>

\* The reconnect failed: the old handle is closed, fd is invalid, the loop
\* is Terminated and no handle is open.
C38_Witness ==
  /\ pc = "done" /\ fd = -1 /\ open_fds = {} /\ menus = 1
  /\ \E s \in Slots : SlotState(s).enabled /\ clock >= SlotState(s).next_fire

\* The loop is running: not terminated, no termination or menu requested.
Iterating == pc \notin {"done", "aborted"} /\ keep_running

\* Slot s is enabled with a deadline inside the horizon of the model.
Pending(s) == Iterating /\ SlotState(s).enabled /\ SlotState(s).next_fire <= ClockLimit + menu_ms

\* Slot s has just been served by the fire phase.
JustFired(s) == pc = "rx" /\ FiresOf(iter_log, s) # {}

\* The line handled last arms or stops slot s.
Touched(s) ==
  /\ last.kind = "line"
  /\ \/ ArmsSlot(last, s)
     \/ last.line \in {StopLineOf(s), K_ra}

\* The slots that the lines and start options of these runs can enable.
FairSlots == {0, 2}

\* poll() returning because its timeout ran out.
PollElapsed == Poll /\ clock' >= clock + timeout_ms

\* Time passes: however often input or a signal ends a wait early, a wait
\* that is started again and again eventually lasts until its timeout.
TimePasses == SF_vars(PollElapsed)

\* Every menu visit returns: the operator leaves the menu.
MenuReturns == (pc = "menu") ~> (pc # "menu")

\* C39: if every menu visit returns and time passes, an enabled slot whose
\* deadline lies ahead is eventually served by the fire phase, unless the
\* loop terminates or a line arms or stops that slot first; a slot's
\* deadline changes only through its fire or a line that arms it; and an
\* arm line for an enabled slot sets its deadline to the instant of the
\* command plus the interval the slot then has.
C39_EventuallyFires ==
  /\ (MenuReturns /\ TimePasses) =>
       \A s \in FairSlots : Pending(s) ~> (JustFired(s) \/ Touched(s) \/ ~Iterating)
  /\ [][\A s \in Slots :
          /\ (SlotState(s)'.next_fire # SlotState(s).next_fire) =>
               \/ pc = "fire" /\ FiresOf(iter_log', s) # {}
               \/ pc = "kbd" /\ last'.kind = "line" /\ ArmsSlot(last', s)
          /\ (pc = "kbd" /\ SlotState(s).enabled /\ last'.kind = "line"
              /\ ArmsSlot(last', s)) =>
               SlotState(s)'.next_fire = clock + SlotState(s)'.interval_ms]_vars

\* Preset 2, repeating since the start, fired in this wakeup and was then
\* armed again by `/p 2 -r -t 50`: its deadline is one interval after the
\* command.
C39_Witness ==
  /\ pc = "top" /\ clock > 0
  /\ last.kind = "line" /\ last.line = <<K_p, DecDigits(2), F_r, F_t, DecDigits(50)>>
  /\ FiresOf(iter_log, 2) # {}
  /\ preset_repeats[2].enabled
  /\ preset_repeats[2].next_fire = clock + preset_repeats[2].interval_ms

\* The line ending a serial text send gets under the CRLF setting given.
Ending(crlf) == IF crlf THEN CRLF ELSE <<>>

\* C40: every inline fire puts on the wire what the arming line itself
\* transmitted (payload, target, line ending, framing), whatever the mode,
\* the CRLF setting, the configured CAN id and the interface type are by
\* then; every preset fire is built from the settings in force at the fire:
\* a frame on CAN and bytes on serial, a text preset on serial with the
\* line ending of the current CRLF setting, a frame with the preset's own id
\* or, failing that, the configured id as it is now.
C40_InlineCapturedPresetCurrent ==
  (pc = "rx") =>
    \A i \in LogIndices("fire") :
      LET e == iter_log[i] IN
      IF e.slot = 0
      THEN Len(e.tx) = 1 /\ Wire(e.tx[1]) = inline_armed.tx
      ELSE LET pr == cfg.presets[e.slot] IN
           \A k \in DOMAIN e.tx :
             /\ (e.tx[k].kind = "frame") <=> (itype = "CAN")
             /\ (itype = "SERIAL" /\ pr.format = "text") =>
                  e.tx[k].data = pr.data \o Ending(append_crlf)
             /\ (itype = "CAN") =>
                  e.tx[k].can_id =
                    stoul16(IF pr.can_id = <<>> THEN cfg.can_id ELSE pr.can_id).val

\* An inline text repeat armed while CRLF was on fires with its line ending
\* although the setting has been switched off since.
C40_Witness ==
  /\ pc = "rx" /\ ~append_crlf /\ inline_repeat.append_crlf
  /\ \E i \in LogIndices("fire") :
       /\ iter_log[i].slot = 0
       /\ iter_log[i].tx[1].kind = "bytes"
       /\ iter_log[i].tx[1].data = inline_repeat.text_data \o CRLF

====
